---- MODULE Spec2Model ----
(***************************************************************************)
(* A model of the AES Drive decryptors of this repository:                 *)
(*   "legacy"  src/aesdecryptor.py          (class AESDecryptor)           *)
(*   "res"     src/aes_decryptor.py         (class AESDecryptor, src/res)  *)
(*   "expert"  src/src/aes_decryptor.py     (class AESDecryptor)           *)
(* Byte strings are sequences of 0..255.  The header parsers, the CRC-32,  *)
(* the slicing and the sector loops are modelled as the code computes      *)
(* them.  The primitives of the cryptography library (PBKDF2, SHA-512,     *)
(* AES-GCM, AES-XTS) are deterministic stand-ins that keep the lengths,    *)
(* the dependence on every input and the order of the inputs.              *)
(***************************************************************************)
EXTENDS Integers, Sequences, FiniteSets, TLC

(* ------------------------------------------------------------------ *)
(* Program constants                                                   *)
(* ------------------------------------------------------------------ *)
HEADER_LENGTH == 144
SECTOR_LENGTH == 512
KDF_ITERATIONS == 50000
AES_KEY_SIZE == 32
INIT_VECTOR_SIZE == 12

\* "AESD"
EXPECTED_FILE_TYPE == << 65, 69, 83, 68 >>

(* ------------------------------------------------------------------ *)
(* Bounds of the model                                                 *)
(* ------------------------------------------------------------------ *)
\* payloads of 0..MaxSectors sectors
MaxSectors == 3
\* version bytes 0..MaxVersion in the headers
MaxVersion == 5
\* padding lengths 0..MaxPadding handed to the sector loops
MaxPadding == 700

(* ------------------------------------------------------------------ *)
(* Byte strings                                                        *)
(* ------------------------------------------------------------------ *)
Zeros(n) == [i \in 1..n |-> 0]

Min(a, b) == IF a < b THEN a ELSE b

Max(a, b) == IF a < b THEN b ELSE a

(* Python slice b[lo:hi] with 0 <= lo and 0 <= hi: elements lo..hi-1,
   clipped to the length of b. *)
Slice(b, lo, hi) ==
    LET h == Min(hi, Len(b))
    IN  IF h <= lo THEN << >> ELSE [i \in 1..(h - lo) |-> b[lo + i]]

(* Bitwise exclusive or of two naturals, bit by bit. *)
RECURSIVE XorBits(_, _)
XorBits(a, b) ==
    IF a = 0 THEN b
    ELSE IF b = 0 THEN a
    ELSE (((a % 2) + (b % 2)) % 2) + 2 * XorBits(a \div 2, b \div 2)

\* the exclusive or of two bytes, tabulated
XorTable == [a \in 0..255 |-> [b \in 0..255 |-> XorBits(a, b)] @@ << >>] @@ << >>

(* Bitwise exclusive or of two naturals below 65536. *)
Xor(a, b) == XorTable[a % 256][b % 256] + 256 * XorTable[a \div 256][b \div 256]

(* ------------------------------------------------------------------ *)
(* binascii.crc32, binascii.hexlify, int.to_bytes, int.from_bytes      *)
(* A 32-bit unsigned word is kept as its 16-bit halves <<hi, lo>>; an  *)
(* integer of up to 33 bits is <<hi, lo>> with 0 <= lo < 65536 and hi  *)
(* possibly negative, its value hi * 65536 + lo.                       *)
(* ------------------------------------------------------------------ *)
\* one bit of the reflected CRC-32, polynomial 0xEDB88320
CrcShift(c) ==
    LET hi == c[1] \div 2
        lo == (c[2] \div 2) + 32768 * (c[1] % 2)
    IN  IF c[2] % 2 = 1 THEN << Xor(hi, 60856), Xor(lo, 33568) >> ELSE << hi, lo >>

RECURSIVE CrcBits(_, _)
CrcBits(c, n) == IF n = 0 THEN c ELSE CrcBits(CrcShift(c), n - 1)

CrcTable == [i \in 0..255 |-> CrcBits(<< 0, i >>, 8)] @@ << >>

CrcByte(c, b) ==
    LET t == CrcTable[Xor(c[2] % 256, b)]
    IN  << Xor(t[1], c[1] \div 256), Xor(t[2], (c[2] \div 256) + 256 * (c[1] % 256)) >>

\* the CRC register after the bytes data[lo..hi], halving the range to keep
\* the evaluation shallow
RECURSIVE CrcFold(_, _, _, _)
CrcFold(c, data, lo, hi) ==
    IF lo > hi THEN c
    ELSE IF lo = hi THEN CrcByte(c, data[lo])
    ELSE LET mid == (lo + hi) \div 2
             left == CrcFold(c, data, lo, mid)
         IN  IF left[1] < 0 THEN left ELSE CrcFold(left, data, mid + 1, hi)

\* binascii.crc32(data), unsigned
crc32(data) ==
    LET c == CrcFold(<< 65535, 65535 >>, data, 1, Len(data))
    IN  << 65535 - c[1], 65535 - c[2] >>

\* w.to_bytes(4, 'big')
ToBytes4Big(w) == << w[1] \div 256, w[1] % 256, w[2] \div 256, w[2] % 256 >>

\* int.from_bytes(b, 'big', signed=True) of four bytes
FromBytes4BigSigned(b) ==
    LET hi == b[1] * 256 + b[2]
    IN  << IF hi >= 32768 THEN hi - 65536 ELSE hi, b[3] * 256 + b[4] >>

\* int.from_bytes(b, 'big') of two bytes
FromBytes2Big(b) == b[1] * 256 + b[2]

\* the ASCII code of a hexadecimal digit, lower case
HexDigit(n) == IF n < 10 THEN 48 + n ELSE 87 + n

\* binascii.hexlify(b): two lower-case hexadecimal digits a byte
hexlify(b) ==
    [i \in 1..(2 * Len(b)) |->
        IF i % 2 = 1 THEN HexDigit(b[(i + 1) \div 2] \div 16)
        ELSE HexDigit(b[i \div 2] % 16)]

(* ------------------------------------------------------------------ *)
(* bytes.decode("utf-8") and str.encode                                *)
(* ------------------------------------------------------------------ *)
IsCont(b, k) == k <= Len(b) /\ b[k] \in 128..191

(* Length of the well-formed UTF-8 sequence that starts at b[k]; 0 when
   there is none. *)
Utf8SeqLen(b, k) ==
    LET c == b[k]
    IN  IF c < 128 THEN 1
        ELSE IF c \in 194..223 /\ IsCont(b, k + 1) THEN 2
        ELSE IF c \in 224..239 /\ IsCont(b, k + 1) /\ IsCont(b, k + 2)
                /\ (c = 224 => b[k + 1] >= 160) /\ (c = 237 => b[k + 1] <= 159) THEN 3
        ELSE IF c \in 240..244 /\ IsCont(b, k + 1) /\ IsCont(b, k + 2) /\ IsCont(b, k + 3)
                /\ (c = 240 => b[k + 1] >= 144) /\ (c = 244 => b[k + 1] <= 143) THEN 4
        ELSE 0

\* the code point of the sequence of n bytes at b[k] (n = 4 is kept as its
\* three low continuation fields: no code point above 0xFFFF is compared)
Utf8CodePoint(b, k, n) ==
    IF n = 1 THEN b[k]
    ELSE IF n = 2 THEN (b[k] % 32) * 64 + (b[k + 1] % 64)
    ELSE IF n = 3 THEN (b[k] % 16) * 4096 + (b[k + 1] % 64) * 64 + (b[k + 2] % 64)
    ELSE (b[k] % 8) * 262144 + (b[k + 1] % 64) * 4096 + (b[k + 2] % 64) * 64 + (b[k + 3] % 64)

RECURSIVE Utf8DecodeFrom(_, _)
Utf8DecodeFrom(b, k) ==
    IF k > Len(b) THEN [ok |-> TRUE, str |-> << >>]
    ELSE LET n == Utf8SeqLen(b, k)
         IN  IF n = 0 THEN [ok |-> FALSE, str |-> << >>]
             ELSE LET rest == Utf8DecodeFrom(b, k + n)
                  IN  [ok |-> rest.ok,
                       str |-> IF rest.ok THEN << Utf8CodePoint(b, k, n) >> \o rest.str ELSE << >>]

\* b.decode("utf-8"): ok is FALSE where Python raises UnicodeDecodeError
Utf8Decode(b) == Utf8DecodeFrom(b, 1)

\* the UTF-8 bytes of one code point below 0x10000
Utf8Char(c) ==
    IF c < 128 THEN << c >>
    ELSE IF c < 2048 THEN << 192 + (c \div 64), 128 + (c % 64) >>
    ELSE << 224 + (c \div 4096), 128 + ((c \div 64) % 64), 128 + (c % 64) >>

RECURSIVE Utf8Encode(_)
Utf8Encode(s) == IF s = << >> THEN << >> ELSE Utf8Char(Head(s)) \o Utf8Encode(Tail(s))

(* ------------------------------------------------------------------ *)
(* Errors                                                              *)
(* ------------------------------------------------------------------ *)
\* type: the class of the exception; msg: the fixed part of its message;
\* origin: the class of the exception at the start of its cause chain
NoError == [type |-> "", msg |-> "", origin |-> ""]

Raise(t, m) == [type |-> t, msg |-> m, origin |-> t]

(* ------------------------------------------------------------------ *)
(* AESDataFile, src/res/aes_date_file.py                               *)
(* ------------------------------------------------------------------ *)
NoFields ==
    [file_type |-> << >>, file_type_version |-> -1, reserved_1 |-> << >>,
     crc32_checksum |-> << >>, global_salt |-> << >>, file_salt |-> << >>,
     aes_gcm_header |-> << >>, aes_gcm_auth_tag |-> << >>]

\* an object whose constructor raised does not exist
Failed(err) == [raised |-> err, f |-> NoFields]

\* the zeroed-checksum copy both parsers build
HeaderForChecksum(raw_header) ==
    Slice(raw_header, 0, 12) \o << 0, 0, 0, 0 >> \o Slice(raw_header, 16, 144)

\* the checksum field as _parse_header stores it
ResChecksumField(header) == hexlify(Slice(header, 12, 16))

\* _parse_header with the salts taken one byte early
ResParseHeaderShifted(header) ==
    LET d == Utf8Decode(Slice(header, 0, 4))
    IN  IF ~d.ok THEN Failed(Raise("UnicodeDecodeError", "invalid start byte"))
        ELSE IF d.str # EXPECTED_FILE_TYPE
             THEN Failed(Raise("AESDataFileError", "Invalid file type"))
        ELSE [raised |-> NoError,
              f |-> [file_type |-> d.str,
                     file_type_version |-> header[5],
                     reserved_1 |-> Slice(header, 5, 12),
                     crc32_checksum |-> ResChecksumField(header),
                     global_salt |-> Slice(header, 15, 31),
                     file_salt |-> Slice(header, 31, 47),
                     aes_gcm_header |-> Slice(header, 48, 128),
                     aes_gcm_auth_tag |-> Slice(header, 128, 144)]]

ResParseHeader(header) ==
    LET d == Utf8Decode(Slice(header, 0, 4))
    IN  IF ~d.ok THEN Failed(Raise("UnicodeDecodeError", "invalid start byte"))
        ELSE IF d.str # EXPECTED_FILE_TYPE
             THEN Failed(Raise("AESDataFileError", "Invalid file type"))
        ELSE [raised |-> NoError,
              f |-> [file_type |-> d.str,
                     file_type_version |-> header[5],
                     reserved_1 |-> Slice(header, 5, 12),
                     crc32_checksum |-> ResChecksumField(header),
                     global_salt |-> Slice(header, 16, 32),
                     file_salt |-> Slice(header, 32, 48),
                     aes_gcm_header |-> Slice(header, 48, 128),
                     aes_gcm_auth_tag |-> Slice(header, 128, 144)]]

\* _validate_checksum comparing the first three bytes of the checksum only
ResValidateChecksumShort(raw_header, obj) ==
    LET calculated_crc == crc32(HeaderForChecksum(raw_header))
        calculated_hex == hexlify(ToBytes4Big(calculated_crc))
    IN  IF Slice(calculated_hex, 0, 6) # Slice(obj.f.crc32_checksum, 0, 6)
        THEN Failed(Raise("AESDataFileError", "Checksum mismatch"))
        ELSE obj

ResValidateChecksum(raw_header, obj) ==
    LET calculated_crc == crc32(HeaderForChecksum(raw_header))
        calculated_hex == hexlify(ToBytes4Big(calculated_crc))
    IN  IF calculated_hex # obj.f.crc32_checksum
        THEN Failed(Raise("AESDataFileError", "Checksum mismatch"))
        ELSE obj

\* AESDataFile(header) with the length looked at after the fields were parsed
ResAESDataFileLate(header) ==
    LET obj == ResParseHeader(header)
    IN  IF obj.raised # NoError THEN obj
        ELSE IF Len(header) # HEADER_LENGTH
        THEN Failed(Raise("AESDataFileError", "Invalid header length"))
        ELSE ResValidateChecksum(header, obj)

\* AESDataFile(header)
ResAESDataFile(header) ==
    IF Len(header) # HEADER_LENGTH
    THEN Failed(Raise("AESDataFileError", "Invalid header length"))
    ELSE LET obj == ResParseHeader(header)
         IN  IF obj.raised # NoError THEN obj ELSE ResValidateChecksum(header, obj)

\* AESDataFile.is_valid
ResIsValid(obj) ==
    /\ obj.raised = NoError
    /\ obj.f.file_type = EXPECTED_FILE_TYPE
    /\ Len(obj.f.global_salt) = 16
    /\ Len(obj.f.file_salt) = 16
    /\ Len(obj.f.aes_gcm_header) = 80
    /\ Len(obj.f.aes_gcm_auth_tag) = 16

(* ------------------------------------------------------------------ *)
(* AESDataFile, src/src/aes_decryptor.py                               *)
(* ------------------------------------------------------------------ *)
ExpertParseHeader(h) ==
    LET d == Utf8Decode(Slice(h, 0, 4))
    IN  IF ~d.ok THEN Failed(Raise("UnicodeDecodeError", "invalid start byte"))
        ELSE IF d.str # EXPECTED_FILE_TYPE
             THEN Failed(Raise("ValueError", "Invalid file type"))
        ELSE [raised |-> NoError,
              f |-> [file_type |-> d.str,
                     file_type_version |-> h[5],
                     reserved_1 |-> Slice(h, 5, 12),
                     crc32_checksum |-> Slice(h, 12, 16),
                     global_salt |-> Slice(h, 16, 32),
                     file_salt |-> Slice(h, 32, 48),
                     aes_gcm_header |-> Slice(h, 48, 128),
                     aes_gcm_auth_tag |-> Slice(h, 128, 144)]]

ExpertVerifyChecksum(raw_header, obj) ==
    LET calculated_crc == crc32(HeaderForChecksum(raw_header))
        expected_crc == FromBytes4BigSigned(obj.f.crc32_checksum)
    IN  IF calculated_crc # expected_crc
        THEN Failed(Raise("ValueError", "Header CRC32 checksum verification failed"))
        ELSE obj

ExpertAESDataFile(header_data) ==
    IF Len(header_data) # HEADER_LENGTH
    THEN Failed(Raise("ValueError", "Invalid header length"))
    ELSE LET obj == ExpertParseHeader(header_data)
         IN  IF obj.raised # NoError THEN obj ELSE ExpertVerifyChecksum(header_data, obj)

(* ------------------------------------------------------------------ *)
(* DataFile of src/aesdecryptor.py: the class of that name under src/  *)
(* takes a path, not the header bytes it is called with; it is taken   *)
(* from the header layout and checks of the specification, and exits   *)
(* on a header it rejects.                                             *)
(* ------------------------------------------------------------------ *)
LegacyDataFile(file_header) ==
    IF Len(file_header) # HEADER_LENGTH
    THEN Failed(Raise("SystemExit", "Invalid header length"))
    ELSE IF Slice(file_header, 0, 4) # EXPECTED_FILE_TYPE
    THEN Failed(Raise("SystemExit", "Invalid file type"))
    ELSE IF ToBytes4Big(crc32(HeaderForChecksum(file_header))) # Slice(file_header, 12, 16)
    THEN Failed(Raise("SystemExit", "Checksum mismatch"))
    ELSE [raised |-> NoError,
          f |-> [file_type |-> Slice(file_header, 0, 4),
                 file_type_version |-> file_header[5],
                 reserved_1 |-> Slice(file_header, 5, 12),
                 crc32_checksum |-> Slice(file_header, 12, 16),
                 global_salt |-> Slice(file_header, 16, 32),
                 file_salt |-> Slice(file_header, 32, 48),
                 aes_gcm_header |-> Slice(file_header, 48, 128),
                 aes_gcm_auth_tag |-> Slice(file_header, 128, 144)]]

(* ------------------------------------------------------------------ *)
(* Stand-ins for the primitives of the cryptography library.  Each is  *)
(* a deterministic function of all its inputs, in their order, with    *)
(* the output length of the primitive.                                 *)
(* ------------------------------------------------------------------ *)
MixByte(h, b) == (h * 31 + b + 1) % 65521

RECURSIVE MixFold(_, _, _, _)
MixFold(h, data, lo, hi) ==
    IF lo > hi THEN h
    ELSE IF lo = hi THEN MixByte(h, data[lo])
    ELSE LET mid == (lo + hi) \div 2
             left == MixFold(h, data, lo, mid)
         IN  IF left < 0 THEN left ELSE MixFold(left, data, mid + 1, hi)

\* n bytes drawn from the bytes of data, under a domain separation tag
Expand(tag, data, n) ==
    LET h == MixFold(MixByte(7, tag), data, 1, Len(data))
    IN  [k \in 1..n |-> ((h + 7 * k) * (k + 13) + (h \div 251)) % 256]

\* PBKDF2-HMAC-SHA512(password, salt, iterations) of dklen bytes
pbkdf2_hmac_sha512(password_bytes, salt, iterations, dklen) ==
    Expand(80,
           << Len(password_bytes) >> \o password_bytes \o salt
              \o << (iterations \div 256) % 256, iterations % 256 >>,
           dklen)

\* hashlib.sha512(data).digest()
sha512(data) == Expand(83, data, 64)

\* the AES-GCM key stream and tag under (key, nonce)
GcmStream(key, nonce, n) == Expand(71, key \o nonce, n)

GcmTag(key, nonce, ct) == Expand(84, key \o nonce \o ct, 16)

\* AESGCM(key).encrypt(nonce, data, None): ciphertext ++ tag
AESGCM_encrypt(key, nonce, data) ==
    LET ks == GcmStream(key, nonce, Len(data))
        ct == [i \in 1..Len(data) |-> (data[i] + ks[i]) % 256]
    IN  ct \o GcmTag(key, nonce, ct)

\* AESGCM(key).decrypt(nonce, data, None): ok is FALSE where the library
\* raises InvalidTag
AESGCM_decrypt(key, nonce, data) ==
    LET n == Len(data) - 16
        ct == Slice(data, 0, n)
        tag == Slice(data, n, n + 16)
        ks == GcmStream(key, nonce, n)
    IN  IF tag # GcmTag(key, nonce, ct)
        THEN [ok |-> FALSE, data |-> << >>]
        ELSE [ok |-> TRUE, data |-> [i \in 1..n |-> (ct[i] - ks[i]) % 256]]

\* n.to_bytes(16, 'little')
ToBytes16Little(n) ==
    [i \in 1..16 |-> IF i = 1 THEN n % 256
                     ELSE IF i = 2 THEN (n \div 256) % 256
                     ELSE IF i = 3 THEN (n \div 65536) % 256
                     ELSE IF i = 4 THEN (n \div 16777216) % 256
                     ELSE 0]

(* A sector read from the payload: the sector's index in the payload, the
   XTS key it was encrypted under (the tweak it was encrypted with is its
   index) and its length.  NoChunk is the empty read. *)
NoChunk == [sector |-> -1, key |-> << >>, len |-> 0]

(* Cipher(AES(xts_key), XTS(tweak)).decryptor().update(chunk): the
   plaintext of the sector when key and tweak are those it was encrypted
   with, noise (-1) otherwise; as many bytes as the chunk. *)
XTS_decrypt(xts_key, tweak, chunk) ==
    [sector |-> IF xts_key = chunk.key /\ tweak = ToBytes16Little(chunk.sector)
                THEN chunk.sector ELSE -1,
     len |-> chunk.len]

(* ------------------------------------------------------------------ *)
(* The encrypted file, as the format's writer builds it                *)
(* ------------------------------------------------------------------ *)
\* passwords, as strings of code points: "pw", "p" e-acute, "px"
PwdAscii == << 112, 119 >>
PwdAccent == << 112, 233 >>
PwdOther == << 112, 120 >>

GlobalSalt == [i \in 1..16 |-> 16 + i]
FileSalt == [i \in 1..16 |-> 160 + i]
XtsKey1 == [i \in 1..32 |-> 2 * i]
XtsKey2 == [i \in 1..32 |-> 255 - i]

\* the 80-byte sub-header
SubHeader(padding_length, reserved) ==
    << padding_length \div 256, padding_length % 256 >> \o reserved \o XtsKey1 \o XtsKey2

\* the header key and IV of the format, for a password of the writer
WriterKeys(password) ==
    LET digest == sha512(FileSalt
                         \o pbkdf2_hmac_sha512(Utf8Encode(password), GlobalSalt, KDF_ITERATIONS, 32))
    IN  << Slice(digest, 0, 32), Slice(digest, 32, 44) >>

\* bytes 16..143 of the header
HeaderBody(password, padding_length, reserved, damage) ==
    LET k == WriterKeys(password)
        sealed == AESGCM_encrypt(k[1], k[2], SubHeader(padding_length, reserved))
        s == IF damage = "ciphertext" THEN [sealed EXCEPT ![1] = (@ + 1) % 256]
             ELSE IF damage = "tag" THEN [sealed EXCEPT ![96] = (@ + 128) % 256]
             ELSE sealed
    IN  GlobalSalt \o FileSalt \o s

(* The 144 header bytes.  damage: "none"; "ciphertext" or "tag", a byte of
   the sealed sub-header altered and the checksum recomputed; "checksum",
   a stored checksum that is not the CRC; "magic", another file type;
   "notutf8", a first byte that starts no UTF-8 sequence. *)
HeaderBytes(version, password, padding_length, reserved, damage) ==
    LET magic == IF damage = "magic" THEN << 88, 88, 88, 88 >>
                 ELSE IF damage = "notutf8" THEN << 255, 69, 83, 68 >>
                 ELSE EXPECTED_FILE_TYPE
        head == magic \o << version >> \o Zeros(7)
        body == HeaderBody(password, padding_length, reserved, damage)
        crc == ToBytes4Big(crc32(head \o << 0, 0, 0, 0 >> \o body))
        stored == IF damage = "checksum" THEN [crc EXCEPT ![4] = (@ + 1) % 256] ELSE crc
    IN  head \o stored \o body

(* ------------------------------------------------------------------ *)
(* State                                                               *)
(* ------------------------------------------------------------------ *)
VARIABLES
    variant,          \* which decryptor runs: "legacy", "res" or "expert"
    config,           \* the res.config.Config instance of the res decryptor
    file,             \* the input file on disk
    password,         \* the password given to decrypt_file (code points)
    pc,               \* the stage decrypt_file has reached
    header,           \* the bytes read from the head of the file
    data_file,        \* the parsed header object
    keys,             \* << header key, IV >>
    decrypted_header, \* the plaintext sub-header
    xts_key,          \* the combined XTS key
    padding_length,   \* padding length taken from the sub-header
    file_length,      \* the plaintext length handed to the sector loop
    current_sector,   \* the sector counter of the loop
    byte_offset,      \* byte_offset / bytes_processed / bytes_written
    f_in,             \* the input handle: open, and sectors read so far
    out,              \* the output file
    result,           \* what decrypt_file gave its caller
    stages,           \* the stages entered so far, in order
    mem,              \* the buffers of the legacy decryptor that hold secrets
    call,             \* a helper function called on its own: name and arguments
    ret,              \* what that call has returned, << >> before it returns
    secure            \* a SecureMemory object, or a bytearray for secure_zero_memory

vars ==
    << variant, config, file, password, pc, header, data_file, keys,
       decrypted_header, xts_key, padding_length, file_length, current_sector,
       byte_offset, f_in, out, result, stages, mem, call, ret, secure >>

\* the variables of the helper functions, which no decryptor touches
helper == << call, ret, secure >>

\* no SecureMemory object or bytearray is looked at on its own
NoObject ==
    [kind |-> "none", data |-> << >>, original_length |-> 0, phase |-> "idle",
     block |-> "none", exc |-> FALSE]

\* no helper function is being called on its own
NoCall == [fn |-> "", args |-> << >>]

Variants == {"legacy", "res", "expert"}

\* Config() of src/res/config.py: the class defaults, KDF_ITERATIONS and
\* PWD_ENCODING replaced by the environment's AES_KDF_ITERATIONS and
\* AES_PWD_ENCODING when set (<< >> and "" when unset)
Config(env) ==
    [KDF_ITERATIONS |-> IF env.AES_KDF_ITERATIONS = << >> THEN KDF_ITERATIONS
                        ELSE env.AES_KDF_ITERATIONS[1],
     PWD_ENCODING |-> IF env.AES_PWD_ENCODING = "" THEN "UTF-8" ELSE env.AES_PWD_ENCODING,
     HEADER_LENGTH |-> HEADER_LENGTH,
     SECTOR_LENGTH |-> SECTOR_LENGTH]

Environments ==
    { [AES_KDF_ITERATIONS |-> << >>, AES_PWD_ENCODING |-> ""],
      [AES_KDF_ITERATIONS |-> << 1000 >>, AES_PWD_ENCODING |-> ""],
      [AES_KDF_ITERATIONS |-> << 500 >>, AES_PWD_ENCODING |-> ""],
      [AES_KDF_ITERATIONS |-> << 25000 >>, AES_PWD_ENCODING |-> ""],
      [AES_KDF_ITERATIONS |-> << >>, AES_PWD_ENCODING |-> "latin-1"] }

\* Config.validate
ConfigValidate(cfg) ==
    IF cfg.KDF_ITERATIONS < 1000 THEN FALSE
    ELSE IF cfg.HEADER_LENGTH < 1 THEN FALSE
    ELSE IF cfg.SECTOR_LENGTH < 1 THEN FALSE
    ELSE TRUE

DefaultEnvironment == [AES_KDF_ITERATIONS |-> << >>, AES_PWD_ENCODING |-> ""]

\* os.stat(path).st_size of the input file
FileSize(f) == Len(f.header) + f.nsectors * SECTOR_LENGTH + f.tail

\* f.read(SECTOR_LENGTH) on the input handle after pos sectors were read
ReadSector(f, pos) ==
    IF pos < f.nsectors THEN [sector |-> pos, key |-> f.xts_key, len |-> SECTOR_LENGTH]
    ELSE IF pos = f.nsectors /\ f.tail > 0 THEN [sector |-> pos, key |-> f.xts_key, len |-> f.tail]
    ELSE NoChunk

\* f_out.write(chunk[:n]): the file grows by the bytes written
Write(o, plain, n) ==
    IF n <= 0 THEN o
    ELSE [o EXCEPT !.data = Append(@, [sector |-> plain.sector, len |-> n])]

RECURSIVE SumLen(_)
SumLen(d) == IF d = << >> THEN 0 ELSE Head(d).len + SumLen(Tail(d))

\* the size of the output file
BytesWritten == SumLen(out.data)

NoOutput == [exists |-> FALSE, open |-> FALSE, data |-> << >>, unlinkable |-> TRUE]

NoResult == [kind |-> "none", value |-> "", error |-> NoError]

Returned(v) == [kind |-> "return", value |-> v, error |-> NoError]

Raised(e) == [kind |-> "raise", value |-> "", error |-> e]

NoDataFile == Failed(NoError)

(* ------------------------------------------------------------------ *)
(* The buffers of src/aesdecryptor.py that hold secrets.  Each is one  *)
(* Python object; "secret" while it holds the bytes, "zero" once       *)
(* overwritten with zeros, "cleared" once zeroed and emptied.          *)
(* ------------------------------------------------------------------ *)
LegacyBuffers ==
    { "password_bytes", "dk_password_bytes", "dk_password_copy", "kdf_output",
      "pwd_derived_key_verif_mem", "pwd_derived_key_verif", "pwd_derived_key",
      "pwd_derived_key_copy", "file_seed_concat", "file_seed_mem", "file_seed",
      "file_key_hash", "file_key_hash_copy", "header_encryption_key", "init_vector",
      "header_key_mem", "iv_mem", "header_key_arg", "iv_arg", "decrypted_header",
      "decrypted_header_mem", "decrypted_header_arg", "xts_key1", "xts_key2",
      "xts_key_concat", "xts_key_mem", "xts_key", "xts_key1_copy", "xts_key2_copy" }

NoMem == [b \in LegacyBuffers |-> "unset"]

\* objects created holding secret bytes
Alloc(m, S) == [b \in LegacyBuffers |-> IF b \in S THEN "secret" ELSE m[b]]

\* secure_zero_memory(data) on each bytearray of S
secure_zero_memory(m, S) ==
    [b \in LegacyBuffers |-> IF b \in S /\ m[b] = "secret" THEN "zero" ELSE m[b]]

\* SecureMemory.clear() on each SecureMemory of S
SecureMemoryClear(m, S) ==
    [b \in LegacyBuffers |-> IF b \in S /\ m[b] = "secret" THEN "cleared" ELSE m[b]]

(* ------------------------------------------------------------------ *)
(* Stage 1 key derivation of the three decryptors                      *)
(* ------------------------------------------------------------------ *)
\* str.encode(encoding); ok is FALSE where Python raises UnicodeEncodeError
Encode(str, encoding) ==
    IF encoding = "latin-1"
    THEN [ok |-> \A i \in 1..Len(str) : str[i] < 256,
          bytes |-> IF \A i \in 1..Len(str) : str[i] < 256 THEN str ELSE << >>]
    ELSE [ok |-> TRUE, bytes |-> Utf8Encode(str)]

\* src/aesdecryptor.py derive_keys: << header_encryption_key, init_vector >>
LegacyDeriveKeysOf(pwd, df) ==
    LET password_bytes == Encode(pwd, "UTF-8").bytes
        pwd_derived_key == pbkdf2_hmac_sha512(password_bytes, df.global_salt, KDF_ITERATIONS, 32)
        file_seed == df.file_salt \o pwd_derived_key
        file_key_hash == sha512(file_seed)
    IN  << Slice(file_key_hash, 0, 32), Slice(file_key_hash, 32, 44) >>

\* _derive_keys with the iteration count of the class, not of the instance
ResDeriveKeysOfClassCount(cfg, pwd, df) ==
    LET pwd_derived_key == pbkdf2_hmac_sha512(Encode(pwd, cfg.PWD_ENCODING).bytes,
                                              df.global_salt, KDF_ITERATIONS, 32)
        file_seed == df.file_salt \o pwd_derived_key
        file_key_hash == sha512(file_seed)
    IN  << Slice(file_key_hash, 0, 32), Slice(file_key_hash, 32, 44) >>

\* src/aes_decryptor.py _derive_keys
ResDeriveKeysOf(cfg, pwd, df) ==
    LET pwd_derived_key == pbkdf2_hmac_sha512(Encode(pwd, cfg.PWD_ENCODING).bytes,
                                              df.global_salt, cfg.KDF_ITERATIONS, 32)
        file_seed == df.file_salt \o pwd_derived_key
        file_key_hash == sha512(file_seed)
    IN  << Slice(file_key_hash, 0, 32), Slice(file_key_hash, 32, 44) >>

\* src/src/aes_decryptor.py _derive_keys
ExpertDeriveKeysOf(pwd, df) ==
    LET pwd_derived_key == pbkdf2_hmac_sha512(Encode(pwd, "UTF-8").bytes, df.global_salt,
                                              KDF_ITERATIONS, AES_KEY_SIZE)
        file_seed == df.file_salt \o pwd_derived_key
        file_key_hash == sha512(file_seed)
    IN  << Slice(file_key_hash, 0, AES_KEY_SIZE),
           Slice(file_key_hash, AES_KEY_SIZE, AES_KEY_SIZE + INIT_VECTOR_SIZE) >>

\* src/res/crypto_helper.py, CryptoHelper.derive_key_from_password
derive_key_from_password(pwd, salt, iterations, key_length) ==
    pbkdf2_hmac_sha512(Encode(pwd, "utf-8").bytes, salt, iterations, key_length)

\* src/res/crypto_helper.py, CryptoHelper.generate_file_hash
generate_file_hash(file_seed) == sha512(file_seed)

\* the sealed sub-header handed to AES-GCM: ciphertext ++ tag
EncryptedMsg(df) == df.aes_gcm_header \o df.aes_gcm_auth_tag

(* ------------------------------------------------------------------ *)
(* Leaving decrypt_file                                                *)
(* ------------------------------------------------------------------ *)
Enter(stage) == stages' = Append(stages, stage)

\* sys.exit(1) of src/aesdecryptor.py, after the message msg
SystemExit(msg, origin) == Raised([type |-> "SystemExit", msg |-> msg, origin |-> origin])

\* src/aes_decryptor.py decrypt_file: except Exception as e:
\*     raise AESDecryptorError(f"Failed to decrypt file: {e}") from e
\* (msg keeps the message of e, which follows "Failed to decrypt file: ")
ResWrap(e) == Raised([type |-> "AESDecryptorError", msg |-> e.msg, origin |-> e.origin])

\* src/src/aes_decryptor.py decrypt_file: except Exception: unlink the
\* output file when it exists, pass over the OSError of an unlink that
\* fails, then re-raise
ExpertCleanup(o) ==
    IF o.exists
    THEN (IF o.unlinkable THEN NoOutput ELSE [o EXCEPT !.open = FALSE])
    ELSE o

(* ------------------------------------------------------------------ *)
(* src/aesdecryptor.py, AESDecryptor.decrypt_file                      *)
(* ------------------------------------------------------------------ *)
(* validate_file_extension(filepath), the path given by its final extension
   file_ext as os.path.splitext cuts it: the output name (the path without
   file_ext) is returned, or the process exits. *)
validate_file_extension(file_ext) ==
    IF file_ext # ".aesd"
    THEN [exits |-> TRUE, returns |-> ""]
    ELSE [exits |-> FALSE, returns |-> "encrypted_filename"]

\* validate_file_extension, then load_encrypted_file up to f_in.read
LegacyReadHeader ==
    /\ variant = "legacy" /\ pc = "Start"
    /\ IF validate_file_extension(file.suffix).exits
       THEN /\ pc' = "Error"
            /\ result' = SystemExit("extension", "SystemExit")
            /\ mem' = secure_zero_memory(Alloc(mem, {"password_bytes"}), {"password_bytes"})
            /\ UNCHANGED << header, f_in, stages >>
       ELSE IF ~file.exists
       THEN /\ pc' = "Error"
            /\ result' = SystemExit("introuvable", "SystemExit")
            /\ mem' = secure_zero_memory(Alloc(mem, {"password_bytes"}), {"password_bytes"})
            /\ UNCHANGED << header, f_in, stages >>
       ELSE /\ pc' = "HeaderRead"
            /\ header' = Slice(file.header, 0, HEADER_LENGTH)
            /\ f_in' = [open |-> TRUE, pos |-> 0]
            /\ mem' = Alloc(mem, {"password_bytes"})
            /\ Enter("HeaderRead")
            /\ UNCHANGED result
    /\ UNCHANGED << helper, variant, config, file, password, data_file, keys, decrypted_header,
                    xts_key, padding_length, file_length, current_sector, byte_offset, out >>

\* load_encrypted_file from the length check on: DataFile(file_header)
LegacyLoadEncryptedFile ==
    /\ variant = "legacy" /\ pc = "HeaderRead"
    /\ LET df == IF Len(header) # HEADER_LENGTH
                 THEN Failed(Raise("SystemExit", "Longueur d'en-tete de fichier invalide"))
                 ELSE LegacyDataFile(header)
       IN  IF df.raised # NoError
           THEN /\ pc' = "Error"
                /\ result' = SystemExit(df.raised.msg, df.raised.origin)
                /\ data_file' = df
                /\ mem' = secure_zero_memory(mem, {"password_bytes"})
                /\ UNCHANGED stages
           ELSE /\ pc' = "HeaderParsed"
                /\ data_file' = df
                /\ Enter("HeaderParsed")
                /\ UNCHANGED << result, mem >>
    /\ UNCHANGED << helper, variant, config, file, password, header, keys, decrypted_header, xts_key,
                    padding_length, file_length, current_sector, byte_offset, f_in, out >>

\* derive_keys
LegacyDeriveKeys ==
    /\ variant = "legacy" /\ pc = "HeaderParsed"
    /\ pc' = "KeysDerivedStage1"
    /\ keys' = LegacyDeriveKeysOf(password, data_file.f)
    /\ mem' = LET created == Alloc(mem, {"dk_password_bytes", "dk_password_copy", "kdf_output",
                                         "pwd_derived_key_verif_mem", "pwd_derived_key_verif",
                                         "pwd_derived_key", "file_seed_concat", "file_seed_mem",
                                         "file_seed", "file_key_hash", "header_encryption_key",
                                         "init_vector", "pwd_derived_key_copy",
                                         "file_key_hash_copy"})
                  wiped == secure_zero_memory(created, {"pwd_derived_key_copy", "file_key_hash_copy"})
                  left == SecureMemoryClear(wiped, {"file_seed_mem", "pwd_derived_key_verif_mem"})
              IN  secure_zero_memory(left, {"dk_password_bytes"})
    /\ Enter("KeysDerivedStage1")
    /\ UNCHANGED << helper, variant, config, file, password, header, data_file, decrypted_header,
                    xts_key, padding_length, file_length, current_sector, byte_offset, f_in,
                    out, result >>

\* decrypt_header going back to the key derivation on a tag that does not verify
LegacyDecryptHeaderRetry ==
    /\ variant = "legacy" /\ pc = "KeysDerivedStage1"
    /\ LET m == Alloc(mem, {"header_key_mem", "iv_mem", "header_key_arg", "iv_arg"})
           d == AESGCM_decrypt(keys[1], keys[2], EncryptedMsg(data_file.f))
       IN  IF ~d.ok
           THEN /\ pc' = "HeaderParsed"
                /\ mem' = m
                /\ UNCHANGED << decrypted_header, stages, result, f_in >>
           ELSE /\ pc' = "HeaderDecrypted"
                /\ decrypted_header' = d.data
                /\ mem' = Alloc(m, {"decrypted_header", "decrypted_header_mem"})
                /\ Enter("HeaderDecrypted")
                /\ UNCHANGED << result, f_in >>
    /\ UNCHANGED << helper, variant, config, file, password, header, data_file, keys, xts_key,
                    padding_length, file_length, current_sector, byte_offset, out >>

\* decrypt_header, inside the SecureMemory blocks of decrypt_file
LegacyDecryptHeader ==
    /\ variant = "legacy" /\ pc = "KeysDerivedStage1"
    /\ LET m == Alloc(mem, {"header_key_mem", "iv_mem", "header_key_arg", "iv_arg"})
           d == AESGCM_decrypt(keys[1], keys[2], EncryptedMsg(data_file.f))
       IN  IF ~d.ok
           THEN /\ pc' = "Error"
                /\ result' = SystemExit("Erreur (InvalidTag), mauvais mot de passe?", "InvalidTag")
                /\ mem' = secure_zero_memory(SecureMemoryClear(m, {"header_key_mem", "iv_mem"}),
                                             {"password_bytes"})
                /\ f_in' = [f_in EXCEPT !.open = FALSE]
                /\ UNCHANGED << decrypted_header, stages >>
           ELSE /\ pc' = "HeaderDecrypted"
                /\ decrypted_header' = d.data
                /\ mem' = Alloc(m, {"decrypted_header", "decrypted_header_mem"})
                /\ Enter("HeaderDecrypted")
                /\ UNCHANGED << result, f_in >>
    /\ UNCHANGED << helper, variant, config, file, password, header, data_file, keys, xts_key,
                    padding_length, file_length, current_sector, byte_offset, out >>

\* parse_decrypted_header, and a file_length that keeps the header's 144 bytes
LegacyParseDecryptedHeaderWhole ==
    /\ variant = "legacy" /\ pc = "HeaderDecrypted"
    /\ LET header_padding_length == FromBytes2Big(Slice(decrypted_header, 0, 2))
           header_xts_key1 == Slice(decrypted_header, 16, 48)
           header_xts_key2 == Slice(decrypted_header, 48, 80)
       IN  /\ padding_length' = header_padding_length
           /\ xts_key' = header_xts_key1 \o header_xts_key2
           /\ file_length' = FileSize(file) - header_padding_length
    /\ pc' = "KeysDerivedStage2"
    /\ mem' = Alloc(mem, {"decrypted_header_arg", "xts_key1", "xts_key2"})
    /\ Enter("KeysDerivedStage2")
    /\ UNCHANGED << helper, variant, config, file, password, header, data_file, keys,
                    decrypted_header, current_sector, byte_offset, f_in, out, result >>

\* parse_decrypted_header and the computation of file_length
LegacyParseDecryptedHeader ==
    /\ variant = "legacy" /\ pc = "HeaderDecrypted"
    /\ LET header_padding_length == FromBytes2Big(Slice(decrypted_header, 0, 2))
           header_xts_key1 == Slice(decrypted_header, 16, 48)
           header_xts_key2 == Slice(decrypted_header, 48, 80)
       IN  /\ padding_length' = header_padding_length
           /\ xts_key' = header_xts_key1 \o header_xts_key2
           /\ file_length' = FileSize(file) - HEADER_LENGTH - header_padding_length
    /\ pc' = "KeysDerivedStage2"
    /\ mem' = Alloc(mem, {"decrypted_header_arg", "xts_key1", "xts_key2"})
    /\ Enter("KeysDerivedStage2")
    /\ UNCHANGED << helper, variant, config, file, password, header, data_file, keys,
                    decrypted_header, current_sector, byte_offset, f_in, out, result >>

\* decrypt_file_data up to the loop: open(output_filename, "wb")
LegacyOpenOutput ==
    /\ variant = "legacy" /\ pc = "KeysDerivedStage2"
    /\ pc' = "Streaming"
    /\ out' = [exists |-> TRUE, open |-> TRUE, data |-> << >>, unlinkable |-> out.unlinkable]
    /\ current_sector' = 0
    /\ byte_offset' = 0
    /\ mem' = Alloc(mem, {"xts_key_concat", "xts_key_mem", "xts_key"})
    /\ Enter("Streaming")
    /\ UNCHANGED << helper, variant, config, file, password, header, data_file, keys,
                    decrypted_header, xts_key, padding_length, file_length, f_in, result >>

\* what is left of decrypt_file_data and decrypt_file once the loop is over
LegacyLeave(m) ==
    LET a == SecureMemoryClear(m, {"xts_key_mem"})
        b == secure_zero_memory(Alloc(a, {"xts_key1_copy", "xts_key2_copy"}),
                                {"xts_key1_copy", "xts_key2_copy"})
        c == SecureMemoryClear(b, {"decrypted_header_mem", "header_key_mem", "iv_mem"})
    IN  secure_zero_memory(c, {"password_bytes"})

\* the loop of decrypt_file_data ending one sector early: >= for >
LegacyStreamStepEarly ==
    /\ variant = "legacy" /\ pc = "Streaming"
    /\ LET chunk == ReadSector(file, f_in.pos)
           tweak == ToBytes16Little(current_sector)
           decrypted_chunk == XTS_decrypt(xts_key, tweak, chunk)
           offset == byte_offset + SECTOR_LENGTH
       IN  /\ chunk # NoChunk
           /\ byte_offset' = offset
           /\ IF offset >= file_length
              THEN LET last_block_length == file_length % SECTOR_LENGTH
                   IN  /\ out' = [Write(out, decrypted_chunk,
                                        Min(last_block_length, decrypted_chunk.len))
                                  EXCEPT !.open = FALSE]
                       /\ pc' = "Done"
                       /\ result' = Returned("None")
                       /\ f_in' = [open |-> FALSE, pos |-> f_in.pos + 1]
                       /\ mem' = LegacyLeave(mem)
                       /\ Enter("Done")
                       /\ UNCHANGED current_sector
              ELSE /\ out' = Write(out, decrypted_chunk, decrypted_chunk.len)
                   /\ current_sector' = current_sector + 1
                   /\ f_in' = [f_in EXCEPT !.pos = @ + 1]
                   /\ UNCHANGED << pc, result, mem, stages >>
    /\ UNCHANGED << helper, variant, config, file, password, header, data_file, keys,
                    decrypted_header, xts_key, padding_length, file_length >>

\* the loop of decrypt_file_data with a sector counter that is never advanced
LegacyStreamStepSameTweak ==
    /\ variant = "legacy" /\ pc = "Streaming"
    /\ LET chunk == ReadSector(file, f_in.pos)
           tweak == ToBytes16Little(current_sector)
           decrypted_chunk == XTS_decrypt(xts_key, tweak, chunk)
           offset == byte_offset + SECTOR_LENGTH
       IN  /\ chunk # NoChunk
           /\ byte_offset' = offset
           /\ IF offset > file_length
              THEN LET last_block_length == file_length % SECTOR_LENGTH
                   IN  /\ out' = [Write(out, decrypted_chunk,
                                        Min(last_block_length, decrypted_chunk.len))
                                  EXCEPT !.open = FALSE]
                       /\ pc' = "Done"
                       /\ result' = Returned("None")
                       /\ f_in' = [open |-> FALSE, pos |-> f_in.pos + 1]
                       /\ mem' = LegacyLeave(mem)
                       /\ Enter("Done")
                       /\ UNCHANGED current_sector
              ELSE /\ out' = Write(out, decrypted_chunk, decrypted_chunk.len)
                   /\ current_sector' = current_sector
                   /\ f_in' = [f_in EXCEPT !.pos = @ + 1]
                   /\ UNCHANGED << pc, result, mem, stages >>
    /\ UNCHANGED << helper, variant, config, file, password, header, data_file, keys,
                    decrypted_header, xts_key, padding_length, file_length >>

\* one turn of the while True loop of decrypt_file_data with a sector read
LegacyStreamStep ==
    /\ variant = "legacy" /\ pc = "Streaming"
    /\ LET chunk == ReadSector(file, f_in.pos)
           tweak == ToBytes16Little(current_sector)
           decrypted_chunk == XTS_decrypt(xts_key, tweak, chunk)
           offset == byte_offset + SECTOR_LENGTH
       IN  /\ chunk # NoChunk
           /\ byte_offset' = offset
           /\ IF offset > file_length
              THEN LET last_block_length == file_length % SECTOR_LENGTH
                   IN  /\ out' = [Write(out, decrypted_chunk,
                                        Min(last_block_length, decrypted_chunk.len))
                                  EXCEPT !.open = FALSE]
                       /\ pc' = "Done"
                       /\ result' = Returned("None")
                       /\ f_in' = [open |-> FALSE, pos |-> f_in.pos + 1]
                       /\ mem' = LegacyLeave(mem)
                       /\ Enter("Done")
                       /\ UNCHANGED current_sector
              ELSE /\ out' = Write(out, decrypted_chunk, decrypted_chunk.len)
                   /\ current_sector' = current_sector + 1
                   /\ f_in' = [f_in EXCEPT !.pos = @ + 1]
                   /\ UNCHANGED << pc, result, mem, stages >>
    /\ UNCHANGED << helper, variant, config, file, password, header, data_file, keys,
                    decrypted_header, xts_key, padding_length, file_length >>

\* an empty read after which the loop goes round again
LegacyStreamEndContinue ==
    /\ variant = "legacy" /\ pc = "Streaming"
    /\ ReadSector(file, f_in.pos) = NoChunk
    /\ UNCHANGED vars

\* the empty read that ends the loop
LegacyStreamEnd ==
    /\ variant = "legacy" /\ pc = "Streaming"
    /\ ReadSector(file, f_in.pos) = NoChunk
    /\ pc' = "Done"
    /\ result' = Returned("None")
    /\ out' = [out EXCEPT !.open = FALSE]
    /\ f_in' = [f_in EXCEPT !.open = FALSE]
    /\ mem' = LegacyLeave(mem)
    /\ Enter("Done")
    /\ UNCHANGED << helper, variant, config, file, password, header, data_file, keys,
                    decrypted_header, xts_key, padding_length, file_length,
                    current_sector, byte_offset >>

(* ------------------------------------------------------------------ *)
(* src/aes_decryptor.py, AESDecryptor.decrypt_file                     *)
(* ------------------------------------------------------------------ *)
\* str.lower() of the suffixes of the model
Lower(suffix) == IF suffix = ".AESD" THEN ".aesd" ELSE suffix

(* A path as the parts of its file name, the suffixes with their dot:
   "test_file.png.aesd" is << "test_file", ".png", ".aesd" >>. *)
InputPath(f) == << "test_file", ".png", f.suffix >>

\* _get_output_path: input_path.with_suffix(''), the last suffix dropped
ResGetOutputPath(input_path) ==
    IF Len(input_path) >= 2 THEN SubSeq(input_path, 1, Len(input_path) - 1) ELSE input_path

\* _validate_input_file
ResValidateInputFile(f) == f.exists /\ Lower(f.suffix) = ".aesd"

\* decrypt_file reading the header whatever the name of the file is
ResReadHeaderAnyName ==
    /\ variant = "res" /\ pc = "Start"
    /\ IF ~file.exists
       THEN /\ pc' = "Error"
            /\ result' = Returned("False")
            /\ UNCHANGED << header, stages >>
       ELSE /\ pc' = "HeaderRead"
            /\ header' = Slice(file.header, 0, config.HEADER_LENGTH)
            /\ Enter("HeaderRead")
            /\ UNCHANGED result
    /\ UNCHANGED << helper, variant, config, file, password, data_file, keys, decrypted_header,
                    xts_key, padding_length, file_length, current_sector, byte_offset,
                    f_in, out, mem >>

\* _validate_input_file, then _load_data_file up to the end of the with block
ResReadHeader ==
    /\ variant = "res" /\ pc = "Start"
    /\ IF ~ResValidateInputFile(file)
       THEN /\ pc' = "Error"
            /\ result' = Returned("False")
            /\ UNCHANGED << header, stages >>
       ELSE /\ pc' = "HeaderRead"
            /\ header' = Slice(file.header, 0, config.HEADER_LENGTH)
            /\ Enter("HeaderRead")
            /\ UNCHANGED result
    /\ UNCHANGED << helper, variant, config, file, password, data_file, keys, decrypted_header,
                    xts_key, padding_length, file_length, current_sector, byte_offset,
                    f_in, out, mem >>

\* _load_data_file: AESDataFile(header)
ResLoadDataFile ==
    /\ variant = "res" /\ pc = "HeaderRead"
    /\ LET df == ResAESDataFile(header)
       IN  /\ data_file' = df
           /\ IF df.raised # NoError
              THEN /\ pc' = "Error"
                   /\ result' = ResWrap(df.raised)
                   /\ UNCHANGED stages
              ELSE /\ pc' = "HeaderParsed"
                   /\ Enter("HeaderParsed")
                   /\ UNCHANGED result
    /\ UNCHANGED << helper, variant, config, file, password, header, keys, decrypted_header, xts_key,
                    padding_length, file_length, current_sector, byte_offset, f_in, out, mem >>

\* _derive_keys
ResDeriveKeys ==
    /\ variant = "res" /\ pc = "HeaderParsed"
    /\ pc' = "KeysDerivedStage1"
    /\ keys' = ResDeriveKeysOf(config, password, data_file.f)
    /\ Enter("KeysDerivedStage1")
    /\ UNCHANGED << helper, variant, config, file, password, header, data_file, decrypted_header,
                    xts_key, padding_length, file_length, current_sector, byte_offset, f_in,
                    out, result, mem >>

(* _decrypt_header: AES-GCM, the parsing of the sub-header, and os.stat of
   data_file._file_path.  _load_data_file builds AESDataFile(header) with
   no file_path, so the attribute exists and is None, and os.stat(None)
   raises TypeError. *)
ResDecryptHeader ==
    /\ variant = "res" /\ pc = "KeysDerivedStage1"
    /\ LET d == AESGCM_decrypt(keys[1], keys[2], EncryptedMsg(data_file.f))
       IN  IF ~d.ok
           THEN /\ result' = ResWrap([type |-> "AESDecryptorError",
                                      msg |-> "Invalid authentication tag - wrong password?",
                                      origin |-> "InvalidTag"])
                /\ UNCHANGED << decrypted_header, padding_length, xts_key, stages >>
           ELSE /\ decrypted_header' = d.data
                /\ padding_length' = FromBytes2Big(Slice(d.data, 0, 2))
                /\ xts_key' = Slice(d.data, 16, 48) \o Slice(d.data, 48, 80)
                /\ stages' = stages \o << "HeaderDecrypted", "KeysDerivedStage2" >>
                /\ result' = ResWrap(Raise("TypeError", "stat: path should be string, not NoneType"))
    /\ pc' = "Error"
    /\ UNCHANGED << helper, variant, config, file, password, header, data_file, keys, file_length,
                    current_sector, byte_offset, f_in, out, mem >>

\* one turn of the while loop of _decrypt_content with a sector read
ResStreamStep ==
    /\ variant = "res" /\ pc = "Streaming"
    /\ byte_offset < file_length
    /\ LET chunk == ReadSector(file, f_in.pos)
           tweak == ToBytes16Little(current_sector)
           decrypted_chunk == XTS_decrypt(xts_key, tweak, chunk)
           remaining_bytes == file_length - byte_offset
       IN  /\ chunk # NoChunk
           /\ IF remaining_bytes < config.SECTOR_LENGTH
              THEN /\ out' = [Write(out, decrypted_chunk, Min(remaining_bytes, decrypted_chunk.len))
                              EXCEPT !.open = FALSE]
                   /\ f_in' = [open |-> FALSE, pos |-> f_in.pos + 1]
                   /\ pc' = "Done"
                   /\ result' = Returned("None")
                   /\ Enter("Done")
                   /\ UNCHANGED << byte_offset, current_sector >>
              ELSE /\ out' = Write(out, decrypted_chunk, decrypted_chunk.len)
                   /\ byte_offset' = byte_offset + config.SECTOR_LENGTH
                   /\ current_sector' = current_sector + 1
                   /\ f_in' = [f_in EXCEPT !.pos = @ + 1]
                   /\ UNCHANGED << pc, result, stages >>
    /\ UNCHANGED << helper, variant, config, file, password, header, data_file, keys,
                    decrypted_header, xts_key, padding_length, file_length, mem >>

\* the loop condition failing, or the empty read
ResStreamEnd ==
    /\ variant = "res" /\ pc = "Streaming"
    /\ byte_offset >= file_length \/ ReadSector(file, f_in.pos) = NoChunk
    /\ pc' = "Done"
    /\ result' = Returned("None")
    /\ out' = [out EXCEPT !.open = FALSE]
    /\ f_in' = [f_in EXCEPT !.open = FALSE]
    /\ Enter("Done")
    /\ UNCHANGED << helper, variant, config, file, password, header, data_file, keys,
                    decrypted_header, xts_key, padding_length, file_length,
                    current_sector, byte_offset, mem >>

(* ------------------------------------------------------------------ *)
(* src/src/aes_decryptor.py, AESDecryptor.decrypt_file                 *)
(* ------------------------------------------------------------------ *)
SUPPORTED_EXTENSIONS == {".aesd", ".aesf"}

\* _validate_input_file: the exception it raises, NoError when it returns
ExpertValidateInputFile(f) ==
    IF ~f.exists THEN Raise("FileNotFoundError", "Path does not exist")
    ELSE IF Lower(f.suffix) \notin SUPPORTED_EXTENSIONS
    THEN Raise("FileFormatError", "Unsupported file extension")
    ELSE IF FileSize(f) < HEADER_LENGTH
    THEN Raise("FileFormatError", "File too small to contain valid header")
    ELSE NoError

\* _validate_input_file, open(input_path), input_file.read(HEADER_LENGTH)
ExpertReadHeader ==
    /\ variant = "expert" /\ pc = "Start"
    /\ LET e == ExpertValidateInputFile(file)
       IN  IF e # NoError
           THEN /\ pc' = "Error"
                /\ result' = Raised(e)
                /\ UNCHANGED << header, f_in, stages >>
           ELSE /\ pc' = "HeaderRead"
                /\ header' = Slice(file.header, 0, HEADER_LENGTH)
                /\ f_in' = [open |-> TRUE, pos |-> 0]
                /\ Enter("HeaderRead")
                /\ UNCHANGED result
    /\ UNCHANGED << helper, variant, config, file, password, data_file, keys, decrypted_header,
                    xts_key, padding_length, file_length, current_sector, byte_offset,
                    out, mem >>

\* AESDataFile(header_data)
ExpertLoadDataFile ==
    /\ variant = "expert" /\ pc = "HeaderRead"
    /\ LET df == ExpertAESDataFile(header)
       IN  /\ data_file' = df
           /\ IF df.raised # NoError
              THEN /\ pc' = "Error"
                   /\ result' = Raised(df.raised)
                   /\ out' = ExpertCleanup(out)
                   /\ f_in' = [f_in EXCEPT !.open = FALSE]
                   /\ UNCHANGED stages
              ELSE /\ pc' = "HeaderParsed"
                   /\ Enter("HeaderParsed")
                   /\ UNCHANGED << result, out, f_in >>
    /\ UNCHANGED << helper, variant, config, file, password, header, keys, decrypted_header, xts_key,
                    padding_length, file_length, current_sector, byte_offset, mem >>

\* _derive_keys
ExpertDeriveKeys ==
    /\ variant = "expert" /\ pc = "HeaderParsed"
    /\ pc' = "KeysDerivedStage1"
    /\ keys' = ExpertDeriveKeysOf(password, data_file.f)
    /\ Enter("KeysDerivedStage1")
    /\ UNCHANGED << helper, variant, config, file, password, header, data_file, decrypted_header,
                    xts_key, padding_length, file_length, current_sector, byte_offset, f_in,
                    out, result, mem >>

\* _decrypt_header going on with the unauthenticated bytes
ExpertDecryptHeaderUnchecked ==
    /\ variant = "expert" /\ pc = "KeysDerivedStage1"
    /\ pc' = "HeaderDecrypted"
    /\ decrypted_header' = Slice(EncryptedMsg(data_file.f), 0, 80)
    /\ Enter("HeaderDecrypted")
    /\ UNCHANGED << helper, variant, config, file, password, header, data_file, keys, xts_key,
                    padding_length, file_length, current_sector, byte_offset, mem,
                    result, out, f_in >>

\* _decrypt_header
ExpertDecryptHeader ==
    /\ variant = "expert" /\ pc = "KeysDerivedStage1"
    /\ LET d == AESGCM_decrypt(keys[1], keys[2], EncryptedMsg(data_file.f))
       IN  IF ~d.ok
           THEN /\ pc' = "Error"
                /\ result' = Raised([type |-> "InvalidPasswordError",
                                     msg |-> "Invalid password or corrupted file",
                                     origin |-> "InvalidTag"])
                /\ out' = ExpertCleanup(out)
                /\ f_in' = [f_in EXCEPT !.open = FALSE]
                /\ UNCHANGED << decrypted_header, stages >>
           ELSE /\ pc' = "HeaderDecrypted"
                /\ decrypted_header' = d.data
                /\ Enter("HeaderDecrypted")
                /\ UNCHANGED << result, out, f_in >>
    /\ UNCHANGED << helper, variant, config, file, password, header, data_file, keys, xts_key,
                    padding_length, file_length, current_sector, byte_offset, mem >>

\* _extract_xts_keys with the key fields taken from offset 2 on
ExpertExtractXtsKeysEarly ==
    /\ variant = "expert" /\ pc = "HeaderDecrypted"
    /\ LET padding == FromBytes2Big(Slice(decrypted_header, 0, 2))
           xts_key1 == Slice(decrypted_header, 2, 34)
           xts_key2 == Slice(decrypted_header, 48, 80)
       IN  /\ padding_length' = padding
           /\ xts_key' = xts_key1 \o xts_key2
           /\ file_length' = FileSize(file) - HEADER_LENGTH - padding
    /\ pc' = "KeysDerivedStage2"
    /\ Enter("KeysDerivedStage2")
    /\ UNCHANGED << helper, variant, config, file, password, header, data_file, keys,
                    decrypted_header, current_sector, byte_offset, f_in, out, result, mem >>

\* _extract_xts_keys and the computation of file_length
ExpertExtractXtsKeys ==
    /\ variant = "expert" /\ pc = "HeaderDecrypted"
    /\ LET padding == FromBytes2Big(Slice(decrypted_header, 0, 2))
           xts_key1 == Slice(decrypted_header, 16, 48)
           xts_key2 == Slice(decrypted_header, 48, 80)
       IN  /\ padding_length' = padding
           /\ xts_key' = xts_key1 \o xts_key2
           /\ file_length' = FileSize(file) - HEADER_LENGTH - padding
    /\ pc' = "KeysDerivedStage2"
    /\ Enter("KeysDerivedStage2")
    /\ UNCHANGED << helper, variant, config, file, password, header, data_file, keys,
                    decrypted_header, current_sector, byte_offset, f_in, out, result, mem >>

\* open(output_path, 'wb') and _decrypt_file_data up to the loop
ExpertOpenOutput ==
    /\ variant = "expert" /\ pc = "KeysDerivedStage2"
    /\ pc' = "Streaming"
    /\ out' = [exists |-> TRUE, open |-> TRUE, data |-> << >>, unlinkable |-> out.unlinkable]
    /\ current_sector' = 0
    /\ byte_offset' = 0
    /\ Enter("Streaming")
    /\ UNCHANGED << helper, variant, config, file, password, header, data_file, keys,
                    decrypted_header, xts_key, padding_length, file_length, f_in, result, mem >>

\* one turn of the while loop of _decrypt_file_data with a sector read
ExpertStreamStep ==
    /\ variant = "expert" /\ pc = "Streaming"
    /\ byte_offset < file_length
    /\ LET chunk == ReadSector(file, f_in.pos)
           tweak == ToBytes16Little(current_sector)
           decrypted_chunk == XTS_decrypt(xts_key, tweak, chunk)
           remaining_bytes == file_length - byte_offset
           bytes_to_write == Min(decrypted_chunk.len, remaining_bytes)
       IN  /\ chunk # NoChunk
           /\ out' = Write(out, decrypted_chunk, bytes_to_write)
           /\ byte_offset' = byte_offset + bytes_to_write
           /\ current_sector' = current_sector + 1
           /\ f_in' = [f_in EXCEPT !.pos = @ + 1]
    /\ UNCHANGED << helper, variant, config, file, password, pc, header, data_file, keys,
                    decrypted_header, xts_key, padding_length, file_length, result,
                    stages, mem >>

\* the loop condition failing, or the empty read; decrypt_file returns stats
ExpertStreamEnd ==
    /\ variant = "expert" /\ pc = "Streaming"
    /\ byte_offset >= file_length \/ ReadSector(file, f_in.pos) = NoChunk
    /\ pc' = "Done"
    /\ result' = Returned("stats")
    /\ out' = [out EXCEPT !.open = FALSE]
    /\ f_in' = [f_in EXCEPT !.open = FALSE]
    /\ Enter("Done")
    /\ UNCHANGED << helper, variant, config, file, password, header, data_file, keys,
                    decrypted_header, xts_key, padding_length, file_length,
                    current_sector, byte_offset, mem >>

(* ------------------------------------------------------------------ *)
(* The files and calls of the model                                    *)
(* ------------------------------------------------------------------ *)
Passwords == {PwdAscii, PwdAccent, PwdOther}

Scenario(version, nsectors, tail, padding, writer, damage, hdrlen, suffix, exists) ==
    [version |-> version, nsectors |-> nsectors, tail |-> tail, padding |-> padding,
     writer |-> writer, damage |-> damage, hdrlen |-> hdrlen, suffix |-> suffix,
     exists |-> exists, reserved |-> Zeros(14)]

\* files the format's writer produces: whole sectors, fewer than a sector of padding
WellFormedScenarios ==
    { Scenario(v, n, 0, p, w, "none", HEADER_LENGTH, ".aesd", TRUE) :
        v \in 0..MaxVersion, n \in 1..MaxSectors, p \in {0, 1, 511}, w \in {PwdAscii, PwdAccent} }
    \cup { Scenario(v, 0, 0, 0, w, "none", HEADER_LENGTH, ".aesd", TRUE) :
             v \in 0..MaxVersion, w \in {PwdAscii, PwdAccent} }

\* one sector of payload behind a header that was altered
DamagedScenarios ==
    { Scenario(v, 1, 0, 0, PwdAscii, d, HEADER_LENGTH, ".aesd", TRUE) :
        v \in 0..MaxVersion, d \in {"ciphertext", "tag", "checksum", "magic", "notutf8"} }

\* files cut inside the header
ShortScenarios ==
    { Scenario(1, 0, 0, 0, PwdAscii, "none", n, ".aesd", TRUE) : n \in {0, 100, 143} }
    \cup { Scenario(1, 0, 0, 0, PwdAscii, d, 100, ".aesd", TRUE) :
             d \in {"magic", "notutf8", "checksum"} }

\* other names, and a path that does not exist
NameScenarios ==
    { Scenario(1, 1, 0, 0, PwdAscii, "none", HEADER_LENGTH, x, TRUE) : x \in {".AESD", ".aesf", ".txt"} }
    \cup { Scenario(1, 1, 0, 0, PwdAscii, "none", HEADER_LENGTH, ".aesd", FALSE) }

\* a padding length beyond the payload, and a payload that ends inside a sector
OddScenarios ==
    { Scenario(1, 1, 0, p, PwdAscii, "none", HEADER_LENGTH, ".aesd", TRUE) : p \in {600, 65535} }
    \cup { Scenario(1, 1, 188, p, PwdAscii, "none", HEADER_LENGTH, ".aesd", TRUE) : p \in {0, 100} }

\* other bytes in the reserved field 2..15 of the sub-header
ReservedBytes == { [i \in 1..14 |-> 255], [i \in 1..14 |-> 16 * i] }

ReservedScenarios ==
    { [Scenario(1, n, 0, p, PwdAscii, "none", HEADER_LENGTH, ".aesd", TRUE) EXCEPT !.reserved = r] :
        n \in {1, 2}, p \in {0, 511}, r \in ReservedBytes }

Scenarios ==
    WellFormedScenarios \cup DamagedScenarios \cup ShortScenarios \cup NameScenarios
    \cup OddScenarios \cup ReservedScenarios

\* the file of a scenario; version, padding, writer and damage record how it was made
MakeFile(s) ==
    [exists |-> s.exists, suffix |-> s.suffix,
     header |-> Slice(HeaderBytes(s.version, s.writer, s.padding, s.reserved, s.damage), 0, s.hdrlen),
     nsectors |-> s.nsectors, tail |-> s.tail, xts_key |-> XtsKey1 \o XtsKey2,
     version |-> s.version, padding |-> s.padding, writer |-> s.writer, damage |-> s.damage,
     reserved |-> s.reserved]

\* a file left at the output path by an earlier run
OldOutput ==
    [exists |-> TRUE, open |-> FALSE, data |-> << [sector |-> -2, len |-> 7] >>,
     unlinkable |-> TRUE]

\* the same file in a directory that lets no entry be removed: unlink raises OSError
StuckOutput == [OldOutput EXCEPT !.unlinkable = FALSE]

\* decrypt_file(filepath, password) is called
Init ==
    /\ variant \in Variants
    /\ \E env \in Environments :
          /\ variant # "res" => env = DefaultEnvironment
          /\ config = Config(env)
    /\ \E s \in Scenarios : file = MakeFile(s)
    /\ password \in Passwords
    /\ pc = "Start"
    /\ header = << >>
    /\ data_file = NoDataFile
    /\ keys = << >>
    /\ decrypted_header = << >>
    /\ xts_key = << >>
    /\ padding_length = -1
    /\ file_length = 0
    /\ current_sector = 0
    /\ byte_offset = 0
    /\ f_in = [open |-> FALSE, pos |-> 0]
    /\ out \in {NoOutput, OldOutput, StuckOutput}
    /\ out = StuckOutput => variant = "expert"
    /\ result = NoResult
    /\ stages = << >>
    /\ mem = NoMem
    /\ call = NoCall
    /\ ret = << >>
    /\ secure = NoObject

Legacy ==
    \/ LegacyReadHeader
    \/ LegacyLoadEncryptedFile
    \/ LegacyDeriveKeys
    \/ LegacyDecryptHeader
    \/ LegacyParseDecryptedHeader
    \/ LegacyOpenOutput
    \/ LegacyStreamStep
    \/ LegacyStreamEnd

Res ==
    \/ ResReadHeader
    \/ ResLoadDataFile
    \/ ResDeriveKeys
    \/ ResDecryptHeader

Expert ==
    \/ ExpertReadHeader
    \/ ExpertLoadDataFile
    \/ ExpertDeriveKeys
    \/ ExpertDecryptHeader
    \/ ExpertExtractXtsKeys
    \/ ExpertOpenOutput
    \/ ExpertStreamStep
    \/ ExpertStreamEnd

Next == Legacy \/ Res \/ Expert

Spec == Init /\ [][Next]_vars

(* ------------------------------------------------------------------ *)
(* The sector loops on their own: decrypt_file_data, _decrypt_content  *)
(* and _decrypt_file_data called on an open payload with a file_length *)
(* ------------------------------------------------------------------ *)
StreamFile(nsectors, tail, padding) ==
    [exists |-> TRUE, suffix |-> ".aesd", header |-> << >>, nsectors |-> nsectors,
     tail |-> tail, xts_key |-> XtsKey1 \o XtsKey2, version |-> 1, padding |-> padding,
     writer |-> PwdAscii, damage |-> "none", reserved |-> Zeros(14)]

PayloadSize(f) == f.nsectors * SECTOR_LENGTH + f.tail

InitStream ==
    /\ variant \in Variants
    /\ config = Config(DefaultEnvironment)
    /\ \E n \in 0..MaxSectors, t \in {0, 188}, p \in (0..MaxPadding) \cup {65535} :
          /\ file = StreamFile(n, t, p)
          /\ file_length = PayloadSize(file) - p
          /\ padding_length = p
    /\ password = PwdAscii
    /\ pc = "Streaming"
    /\ header = << >>
    /\ data_file = NoDataFile
    /\ keys = << >>
    /\ decrypted_header = << >>
    /\ xts_key = XtsKey1 \o XtsKey2
    /\ current_sector = 0
    /\ byte_offset = 0
    /\ f_in = [open |-> TRUE, pos |-> 0]
    /\ out = [exists |-> TRUE, open |-> TRUE, data |-> << >>, unlinkable |-> TRUE]
    /\ result = NoResult
    /\ stages = << "HeaderRead", "HeaderParsed", "KeysDerivedStage1", "HeaderDecrypted",
                   "KeysDerivedStage2", "Streaming" >>
    /\ mem = NoMem
    /\ call = NoCall
    /\ ret = << >>
    /\ secure = NoObject

NextStream ==
    \/ LegacyStreamStep
    \/ LegacyStreamEnd
    \/ ResStreamStep
    \/ ResStreamEnd
    \/ ExpertStreamStep
    \/ ExpertStreamEnd

SpecStream == InitStream /\ [][NextStream]_vars

\* a loop that is running makes its next read
SpecStreamFair == SpecStream /\ WF_vars(NextStream)

(* The sector loops on a payload that ends early: the file holds fewer
   bytes than the file_length the loop is called with (it was cut short
   after its size was taken, or the loop is called with a larger length). *)
MaxMissing == 40

InitTruncated ==
    /\ variant \in Variants
    /\ config = Config(DefaultEnvironment)
    /\ \E n \in 0..MaxSectors, t \in {0, 188}, missing \in 1..MaxMissing :
          /\ file = StreamFile(n, t, 0)
          /\ file_length = PayloadSize(file) + missing
          /\ padding_length = 0
    /\ password = PwdAscii
    /\ pc = "Streaming"
    /\ header = << >>
    /\ data_file = NoDataFile
    /\ keys = << >>
    /\ decrypted_header = << >>
    /\ xts_key = XtsKey1 \o XtsKey2
    /\ current_sector = 0
    /\ byte_offset = 0
    /\ f_in = [open |-> TRUE, pos |-> 0]
    /\ out = [exists |-> TRUE, open |-> TRUE, data |-> << >>, unlinkable |-> TRUE]
    /\ result = NoResult
    /\ stages = << "HeaderRead", "HeaderParsed", "KeysDerivedStage1", "HeaderDecrypted",
                   "KeysDerivedStage2", "Streaming" >>
    /\ mem = NoMem
    /\ call = NoCall
    /\ ret = << >>
    /\ secure = NoObject

SpecTruncated == InitTruncated /\ [][NextStream]_vars

(* ------------------------------------------------------------------ *)
(* Helper functions called on their own                                *)
(* ------------------------------------------------------------------ *)
\* the variables of the decryptors, which no helper function touches
pipeline ==
    << variant, config, file, password, pc, header, data_file, keys,
       decrypted_header, xts_key, padding_length, file_length, current_sector,
       byte_offset, f_in, out, result, stages, mem >>

\* no decryptor has been called
NoDecryption ==
    /\ variant = "legacy"
    /\ config = Config(DefaultEnvironment)
    /\ file = StreamFile(0, 0, 0)
    /\ password = PwdAscii
    /\ pc = "Start"
    /\ header = << >>
    /\ data_file = NoDataFile
    /\ keys = << >>
    /\ decrypted_header = << >>
    /\ xts_key = << >>
    /\ padding_length = -1
    /\ file_length = 0
    /\ current_sector = 0
    /\ byte_offset = 0
    /\ f_in = [open |-> FALSE, pos |-> 0]
    /\ out = NoOutput
    /\ result = NoResult
    /\ stages = << >>
    /\ mem = NoMem

(* src/res/fnhelper.py, check_arguments.  Arguments are words; a returned
   dict is a function from its keys, None is its own value. *)
MaxArgs == 4

Words == {"-h", "--help", "-p", "--pwd", "-x", "file.aesd", "password"}

\* str.startswith('-')
StartsWithDash(w) == w \in {"-h", "--help", "-p", "--pwd", "-x"}

\* x in arguments
In(x, arguments) == \E i \in 1..Len(arguments) : arguments[i] = x

\* arguments.index(x), counted from 0
Index(arguments, x) ==
    (CHOOSE i \in 1..Len(arguments) :
        arguments[i] = x /\ \A j \in 1..(i - 1) : arguments[j] # x) - 1

None == [none |-> TRUE, dict |-> << >>]

Dict(d) == [none |-> FALSE, dict |-> d]

\* check_arguments taking a password flag at index 0 as well
check_arguments_any_index(arguments) ==
    LET file_part == IF Len(arguments) > 1 /\ ~StartsWithDash(arguments[2])
                     THEN "file" :> arguments[2] ELSE << >>
        arg_error == In("-h", arguments) \/ In("--help", arguments)
        p_ind == IF In("-p", arguments) THEN Index(arguments, "-p")
                 ELSE IF In("--pwd", arguments) THEN Index(arguments, "--pwd")
                 ELSE -1
        pwd_part == IF p_ind >= 0 /\ (p_ind + 1) < Len(arguments)
                    THEN "pwd" :> arguments[p_ind + 2] ELSE << >>
    IN  IF arg_error THEN None ELSE Dict(pwd_part @@ file_part)

check_arguments(arguments) ==
    LET file_part == IF Len(arguments) > 1 /\ ~StartsWithDash(arguments[2])
                     THEN "file" :> arguments[2] ELSE << >>
        arg_error == In("-h", arguments) \/ In("--help", arguments)
        p_ind == IF In("-p", arguments) THEN Index(arguments, "-p")
                 ELSE IF In("--pwd", arguments) THEN Index(arguments, "--pwd")
                 ELSE 0
        pwd_part == IF p_ind > 0 /\ (p_ind + 1) < Len(arguments)
                    THEN "pwd" :> arguments[p_ind + 2] ELSE << >>
    IN  IF arg_error THEN None ELSE Dict(pwd_part @@ file_part)

RECURSIVE Lists(_, _)
Lists(S, n) ==
    IF n = 0 THEN { << >> }
    ELSE LET shorter == Lists(S, n - 1)
         IN  shorter \cup { Append(l, w) : l \in { k \in shorter : Len(k) = n - 1 }, w \in S }

InitArguments ==
    /\ NoDecryption
    /\ \E arguments \in Lists(Words, MaxArgs) :
          call = [fn |-> "check_arguments", args |-> arguments]
    /\ ret = << >>
    /\ secure = NoObject

CheckArguments ==
    /\ call.fn = "check_arguments" /\ ret = << >>
    /\ ret' = << check_arguments(call.args) >>
    /\ UNCHANGED << call, secure, pipeline >>

SpecArguments == InitArguments /\ [][CheckArguments]_vars

(* src/read_file.py, multiplyX: the loop shifts each byte left by one bit
   and carries its top bit into the next byte; when the last byte carries
   out, byte 0 of the result is replaced. *)
multiplyX(bytes16) ==
    LET ret_bytes == [i \in 1..Len(bytes16) |->
                         ((2 * bytes16[i]) + (IF i = 1 THEN 0 ELSE bytes16[i - 1] \div 128)) % 256]
        tt == IF Len(bytes16) = 0 THEN 0 ELSE bytes16[Len(bytes16)] \div 128
    IN  IF tt > 0
        THEN LET res == Xor(bytes16[1], 135)
             IN  << res >> \o Slice(ret_bytes, 1, 16)
        ELSE ret_bytes

\* 16-byte blocks: bytes 0, 1 and 15 drawn from a few values, the others 0
BlockBytes == {0, 1, 60, 128, 255}

Blocks ==
    { [i \in 1..16 |-> IF i = 1 THEN x ELSE IF i = 2 THEN y ELSE IF i = 16 THEN z ELSE 0] :
        x \in BlockBytes, y \in BlockBytes, z \in BlockBytes }

InitMultiply ==
    /\ NoDecryption
    /\ \E b \in Blocks : call = [fn |-> "multiplyX", args |-> b]
    /\ ret = << >>
    /\ secure = NoObject

MultiplyX ==
    /\ call.fn = "multiplyX" /\ ret = << >>
    /\ ret' = << multiplyX(call.args) >>
    /\ UNCHANGED << call, secure, pipeline >>

SpecMultiply == InitMultiply /\ [][MultiplyX]_vars

(* SecureMemory and secure_zero_memory of src/aesdecryptor.py and of
   src/src/aesdrive_decryptor/security.py (the same text).  secure is the
   object: data is self._data (or the bytearray argument), phase the place
   inside clear() or secure_zero_memory ("idle" outside, "random" after the
   random overwrites, "zero" after the zero overwrite), block the with
   statement around the object, exc whether its body raised.  call.args
   is the list of the calls made on the object so far. *)
MaxData == 3

MaxCalls == 3

SecretBytes == {0, 65, 255}

\* secrets.randbits(8), byte by byte: any bytes of the same length
RandomFill(n) == { l \in Lists({0, 255}, n) : Len(l) = n }

InitSecure ==
    /\ NoDecryption
    /\ call = [fn |-> "SecureMemory", args |-> << >>]
    /\ ret = << >>
    /\ \E d \in Lists(SecretBytes, MaxData), k \in {"SecureMemory", "bytearray"},
          w \in {"none", "inside"} :
          /\ k = "bytearray" => w = "none"
          /\ secure = [kind |-> k, data |-> d, original_length |-> Len(d),
                       phase |-> "idle", block |-> w, exc |-> FALSE]

\* what entering clear() or secure_zero_memory does to the object:
\* nothing on an empty buffer, the three random overwrites otherwise
Overwritten(o) ==
    IF o.data = << >> THEN {o}
    ELSE { [o EXCEPT !.data = r, !.phase = "random"] : r \in RandomFill(Len(o.data)) }

\* SecureMemory.get
SecureGet ==
    /\ secure.kind = "SecureMemory" /\ secure.phase = "idle" /\ secure.block # "exiting"
    /\ Len(call.args) < MaxCalls
    /\ call' = [call EXCEPT !.args = Append(@, "get")]
    /\ ret' = << secure.data >>
    /\ UNCHANGED << secure, pipeline >>

\* SecureMemory.clear entered
ClearCall ==
    /\ secure.kind = "SecureMemory" /\ secure.phase = "idle" /\ secure.block # "exiting"
    /\ Len(call.args) < MaxCalls
    /\ call' = [call EXCEPT !.args = Append(@, "clear")]
    /\ secure' \in Overwritten(secure)
    /\ UNCHANGED << ret, pipeline >>

\* secure_zero_memory(data) entered
ZeroMemoryCall ==
    /\ secure.kind = "bytearray" /\ secure.phase = "idle"
    /\ Len(call.args) < MaxCalls
    /\ call' = [call EXCEPT !.args = Append(@, "secure_zero_memory")]
    /\ secure' \in Overwritten(secure)
    /\ UNCHANGED << ret, pipeline >>

\* the loop that writes 0 into every byte; secure_zero_memory ends with it
ZeroPass ==
    /\ secure.phase = "random"
    /\ secure' = [secure EXCEPT !.data = Zeros(Len(secure.data)),
                                !.phase = IF secure.kind = "bytearray" THEN "idle" ELSE "zero"]
    /\ UNCHANGED << call, ret, pipeline >>

\* self._data.clear() run on the bytes the random overwrites left
ClearEmptyUnzeroed ==
    /\ secure.kind = "SecureMemory" /\ secure.phase \in {"random", "zero"}
    /\ secure' = [secure EXCEPT !.data = << >>, !.phase = "idle"]
    /\ UNCHANGED << call, ret, pipeline >>

\* self._data.clear(), the last statement of clear()
ClearEmpty ==
    /\ secure.kind = "SecureMemory" /\ secure.phase = "zero"
    /\ secure' = [secure EXCEPT !.data = << >>, !.phase = "idle"]
    /\ UNCHANGED << call, ret, pipeline >>

\* the body of the with block ends, normally or by an exception: __exit__
BlockExit ==
    /\ secure.block = "inside" /\ secure.phase = "idle"
    /\ call' = [call EXCEPT !.args = Append(@, "__exit__")]
    /\ \E e \in BOOLEAN :
          secure' \in Overwritten([secure EXCEPT !.block = "exiting", !.exc = e])
    /\ UNCHANGED << ret, pipeline >>

\* __exit__ returns None: the block is left, an exception goes on to the caller
BlockLeft ==
    /\ secure.block = "exiting" /\ secure.phase = "idle"
    /\ secure' = [secure EXCEPT !.block = "left"]
    /\ UNCHANGED << call, ret, pipeline >>

NextSecure ==
    \/ SecureGet
    \/ ClearCall
    \/ ZeroMemoryCall
    \/ ZeroPass
    \/ ClearEmpty
    \/ BlockExit
    \/ BlockLeft

SpecSecure == InitSecure /\ [][NextSecure]_vars

(* ------------------------------------------------------------------ *)
(* Properties                                                          *)
(* ------------------------------------------------------------------ *)
\* the header of the file was read and the parser has just run on it
Parsed == pc = "HeaderParsed" \/ (pc = "Error" /\ stages = << "HeaderRead" >>)

\* 144 bytes, magic "AESD", and bytes 12..15 the big-endian CRC-32 of the
\* header with that field zeroed
ChecksumMatches(h) == Slice(h, 12, 16) = ToBytes4Big(crc32(HeaderForChecksum(h)))

(* C1: for every 144-byte header with magic "AESD" and the right big-endian
   CRC-32 in bytes 12..15, AESDataFile of src/res is constructed, is_valid
   holds, and version is byte 4, reserved bytes 5..11, global_salt bytes
   16..31, file_salt bytes 32..47, the encrypted sub-header bytes 48..127
   and the tag bytes 128..143: the values the writer put there. *)
C1_ValidHeaderParsed ==
    (/\ variant = "res" /\ Parsed
     /\ Len(header) = 144
     /\ Slice(header, 0, 4) = EXPECTED_FILE_TYPE
     /\ ChecksumMatches(header))
    => /\ data_file.raised = NoError
       /\ ResIsValid(data_file)
       /\ data_file.f.file_type_version = header[5]
       /\ data_file.f.file_type_version = file.version
       /\ data_file.f.reserved_1 = [i \in 1..7 |-> header[5 + i]]
       /\ data_file.f.global_salt = [i \in 1..16 |-> header[16 + i]]
       /\ data_file.f.global_salt = GlobalSalt
       /\ data_file.f.file_salt = [i \in 1..16 |-> header[32 + i]]
       /\ data_file.f.file_salt = FileSalt
       /\ data_file.f.aes_gcm_header = [i \in 1..80 |-> header[48 + i]]
       /\ data_file.f.aes_gcm_auth_tag = [i \in 1..16 |-> header[128 + i]]

\* C1: a valid header with version byte 3 has been parsed by src/res
C1_Witness ==
    /\ variant = "res" /\ pc = "HeaderParsed"
    /\ ChecksumMatches(header)
    /\ data_file.f.file_type_version = 3
    /\ data_file.f.global_salt = GlobalSalt

(* C2: for every 144-byte header with magic "AESD" whose bytes 12..15 are
   not the CRC-32 of the header with that field zeroed, AESDataFile of
   src/res raises AESDataFileError "Checksum mismatch" and nothing else. *)
C2_ChecksumMismatch ==
    (/\ variant = "res" /\ Parsed
     /\ Len(header) = 144
     /\ Slice(header, 0, 4) = EXPECTED_FILE_TYPE
     /\ ~ChecksumMatches(header))
    => /\ data_file.raised = Raise("AESDataFileError", "Checksum mismatch")
       /\ pc = "Error"
       /\ result.error.origin = "AESDataFileError"
       /\ result.error.msg = "Checksum mismatch"

\* C2: src/res has rejected a header with magic "AESD" and a wrong checksum
C2_Witness ==
    /\ variant = "res" /\ pc = "Error" /\ Parsed
    /\ Len(header) = 144
    /\ Slice(header, 0, 4) = EXPECTED_FILE_TYPE
    /\ ~ChecksumMatches(header)
    /\ data_file.raised.msg = "Checksum mismatch"

\* AES-GCM was run on the sealed sub-header and did not verify the tag
AeadFailed ==
    /\ Len(stages) >= 3
    /\ pc # "KeysDerivedStage1"
    /\ ~AESGCM_decrypt(keys[1], keys[2], EncryptedMsg(data_file.f)).ok

\* the error each decryptor gives for a tag that does not verify
AuthenticationError(v) ==
    IF v = "legacy"
    THEN [type |-> "SystemExit", msg |-> "Erreur (InvalidTag), mauvais mot de passe?",
          origin |-> "InvalidTag"]
    ELSE IF v = "res"
    THEN [type |-> "AESDecryptorError", msg |-> "Invalid authentication tag - wrong password?",
          origin |-> "InvalidTag"]
    ELSE [type |-> "InvalidPasswordError", msg |-> "Invalid password or corrupted file",
          origin |-> "InvalidTag"]

(* C3: when AES-GCM does not verify the sealed sub-header (wrong password,
   altered tag or ciphertext), decrypt_file of each decryptor ends with its
   authentication error; the sub-header was not parsed, the output file
   was not opened and holds no decrypted byte. *)
C3_AuthFailureStops ==
    AeadFailed
    => /\ pc = "Error"
       /\ result.kind = "raise"
       /\ result.error.origin = "InvalidTag"
       /\ result.error.msg = AuthenticationError(variant).msg
       /\ decrypted_header = << >>
       /\ padding_length = -1
       /\ xts_key = << >>
       /\ "HeaderDecrypted" \notin { stages[i] : i \in 1..Len(stages) }
       /\ "Streaming" \notin { stages[i] : i \in 1..Len(stages) }
       /\ ~out.open
       /\ \A i \in 1..Len(out.data) : out.data[i].sector = -2

\* C3: a decryptor stopped on the altered tag of a file given its password
C3_Witness ==
    /\ AeadFailed /\ pc = "Error"
    /\ file.damage = "tag" /\ password = file.writer
    /\ variant = "expert"

\* the first n bytes of the plaintext: whole sectors in order, then a cut one
ExpectedExtents(n) ==
    LET full == n \div SECTOR_LENGTH
        rest == n % SECTOR_LENGTH
    IN  [i \in 1..(full + IF rest > 0 THEN 1 ELSE 0) |->
            [sector |-> i - 1, len |-> IF i <= full THEN SECTOR_LENGTH ELSE rest]]

(* C4: in each of the three sector loops, a payload of N >= 1 whole sectors
   with file_length = N*512 - k, 0 <= k < 512, ends with exactly file_length
   bytes written: the sectors 0..N-2 in full and the first 512 - k bytes of
   sector N-1; with N = 0 and file_length = 0 nothing is written. *)
C4_ExactLength ==
    (/\ pc = "Done"
     /\ file.tail = 0
     /\ file.padding < SECTOR_LENGTH
     /\ file.nsectors = 0 => file.padding = 0
     /\ file_length = file.nsectors * SECTOR_LENGTH - file.padding)
    => /\ BytesWritten = file_length
       /\ Len(out.data) = file.nsectors
       /\ \A i \in 1..Len(out.data) :
             /\ out.data[i].sector = i - 1
             /\ out.data[i].len = IF i < file.nsectors THEN SECTOR_LENGTH
                                  ELSE SECTOR_LENGTH - file.padding

\* C4: the loop of src/aes_decryptor.py ended on three sectors cut by 511 bytes
C4_Witness ==
    /\ pc = "Done" /\ variant = "res"
    /\ file.nsectors = 3 /\ file.tail = 0 /\ file.padding = 511
    /\ BytesWritten = 1025

(* C5: whatever the payload size and the padding length of the sub-header,
   also one beyond the payload, the bytes written to the output are never
   more than max(file_length, 0). *)
C5_NoPaddingWritten ==
    pc \in {"Streaming", "Done"} => BytesWritten <= Max(file_length, 0)

\* the file is one the writer produces and the password is the writer's
WellFormedCall ==
    /\ file.exists /\ file.suffix = ".aesd"
    /\ Len(file.header) = HEADER_LENGTH /\ file.damage = "none"
    /\ file.tail = 0
    /\ file.padding < SECTOR_LENGTH
    /\ file.nsectors = 0 => file.padding = 0
    /\ password = file.writer

(* C6: for a well-formed file and its password, decrypt_file of
   src/src/aes_decryptor.py and of src/aesdecryptor.py ends with the output
   holding the decrypted sectors 0, 1, 2, ... in order, each decrypted under
   its own index as tweak, cut to file_length bytes: the plaintext. *)
C6_PlaintextRecovered ==
    (/\ variant \in {"legacy", "expert"}
     /\ pc \in {"Done", "Error"}
     /\ WellFormedCall)
    => /\ pc = "Done"
       /\ out.exists /\ ~out.open
       /\ out.data = ExpectedExtents(file.nsectors * SECTOR_LENGTH - file.padding)

(* C7: when decrypt_file of src/aesdecryptor.py is over, by return or by
   SystemExit, no buffer that held the password bytes, a derived key, the
   digest, the header key, the IV, the sub-header or an XTS key still holds
   them. *)
C7_SecretsZeroed ==
    (variant = "legacy" /\ pc \in {"Done", "Error"})
    => \A b \in LegacyBuffers : mem[b] # "secret"

\* headers a parser rejects: cut short, another magic, a wrong checksum
BadLengthHeader == Slice(HeaderBytes(1, PwdAscii, 0, Zeros(14), "none"), 0, 100)
BadMagicHeader == HeaderBytes(1, PwdAscii, 0, Zeros(14), "magic")
BadChecksumHeader == HeaderBytes(1, PwdAscii, 0, Zeros(14), "checksum")
BadHeaders == {BadLengthHeader, BadMagicHeader, BadChecksumHeader}

\* the classes of the errors the caller of decrypt_file gets for them
LegacyFormatErrorTypes == { LegacyDataFile(h).raised.type : h \in BadHeaders }
ResFormatErrorTypes == { ResWrap(ResAESDataFile(h).raised).error.type : h \in BadHeaders }
ExpertFormatErrorTypes == { ExpertAESDataFile(h).raised.type : h \in BadHeaders }

FormatErrorTypes(v) ==
    IF v = "legacy" THEN LegacyFormatErrorTypes
    ELSE IF v = "res" THEN ResFormatErrorTypes
    ELSE ExpertFormatErrorTypes

(* C8: the error decrypt_file gives its caller for a tag that does not
   verify is of another class than the errors it gives for a header of bad
   length, bad magic or wrong checksum, and the error the header parser
   raised reaches the caller with its own class. *)
C8_KindReachesCaller ==
    /\ (AeadFailed /\ pc = "Error") => result.error.type \notin FormatErrorTypes(variant)
    /\ (Parsed /\ pc = "Error") => result.error.type = data_file.raised.type

StageOrder ==
    << "HeaderRead", "HeaderParsed", "KeysDerivedStage1", "HeaderDecrypted",
       "KeysDerivedStage2", "Streaming", "Done" >>

\* the stages entered so far are the first stages of the order, each once,
\* and decrypt_file stands at the last one entered unless it failed
StagesInOrder ==
    /\ Len(stages) <= Len(StageOrder)
    /\ \A i \in 1..Len(stages) : stages[i] = StageOrder[i]
    /\ pc = "Start" => stages = << >>
    /\ pc \notin {"Start", "Error"} => Len(stages) >= 1 /\ pc = stages[Len(stages)]
    /\ pc = "Error" => "Done" \notin { stages[i] : i \in 1..Len(stages) }

(* C9: within one decrypt_file the stages are entered in the order header
   read, header parse, stage-1 keys, header decryption, XTS keys, streaming,
   done, each at most once and after the one before; nothing happens once
   decrypt_file is at Done or Error. *)
C9_StageOrder ==
    /\ [] StagesInOrder
    /\ [][pc \notin {"Done", "Error"}]_vars

\* C9: a decrypt_file went through all seven stages
C9_Witness == pc = "Done" /\ stages = StageOrder /\ variant = "expert"

\* the stage-1 keys of the format for a password, salts and iteration count
ReferenceKeys(pwd, global_salt, file_salt, iterations) ==
    LET pwd_key == pbkdf2_hmac_sha512(Utf8Encode(pwd), global_salt, iterations, 32)
        digest == sha512(file_salt \o pwd_key)
    IN  << [i \in 1..32 |-> digest[i]], [i \in 1..12 |-> digest[32 + i]] >>

(* C10: in each decryptor the stage-1 keys are PBKDF2-HMAC-SHA512 of the
   UTF-8 password under global_salt, 32 bytes, then SHA-512 of file_salt
   followed by that key, header_key its bytes 0..31 and iv its bytes
   32..43; the same for the same password, salts and iteration count. *)
C10_Stage1Keys ==
    (Len(stages) >= 3)
    => /\ Len(keys[1]) = 32
       /\ Len(keys[2]) = 12
       /\ keys = ReferenceKeys(password, data_file.f.global_salt, data_file.f.file_salt,
                               IF variant = "res" THEN config.KDF_ITERATIONS
                               ELSE KDF_ITERATIONS)

\* the sub-header was authenticated and parsed
SubHeaderParsed == Len(stages) >= 5

(* C11: from the authenticated 80-byte sub-header, padding_length is the
   big-endian 16-bit value of bytes 0..1, the combined XTS key is bytes
   16..47 followed by bytes 48..79, 64 bytes, and bytes 2..15 change
   nothing: the values are those of the writer whatever the reserved
   field holds. *)
C11_SubHeaderFields ==
    SubHeaderParsed
    => /\ Len(decrypted_header) = 80
       /\ padding_length = 256 * decrypted_header[1] + decrypted_header[2]
       /\ padding_length \in 0..65535
       /\ Len(xts_key) = 64
       /\ xts_key = [i \in 1..64 |-> decrypted_header[16 + i]]
       /\ padding_length = file.padding
       /\ xts_key = XtsKey1 \o XtsKey2

\* C11: src/aesdecryptor.py parsed a sub-header whose reserved bytes are not zero
C11_Witness ==
    /\ SubHeaderParsed /\ variant = "legacy" /\ pc = "KeysDerivedStage2"
    /\ file.reserved = [i \in 1..14 |-> 255]
    /\ padding_length = 511

(* C12: in src/aesdecryptor.py and src/src/aes_decryptor.py the length
   handed to the sector loop is the size of the input file on disk, minus
   144, minus the padding_length read from the sub-header; it is not
   computed before AES-GCM has authenticated the sub-header. *)
C12_PlaintextLength ==
    variant \in {"legacy", "expert"}
    => /\ SubHeaderParsed
          => /\ file_length = FileSize(file) - 144 - padding_length
             /\ padding_length = FromBytes2Big(decrypted_header)
             /\ AESGCM_decrypt(keys[1], keys[2], EncryptedMsg(data_file.f)).ok
       /\ ~SubHeaderParsed => file_length = 0 /\ padding_length = -1

\* C12: the loop of src/aesdecryptor.py was handed 512 + 188 - 100 bytes
C12_Witness ==
    /\ variant = "legacy" /\ pc = "Streaming"
    /\ file.nsectors = 1 /\ file.tail = 188 /\ padding_length = 100
    /\ file_length = 600

(* C13: in the three sector loops the counter current_sector starts at 0
   and is the number of sectors decrypted so far, and the i-th sector read
   from the payload is decrypted with the 16-byte little-endian encoding of
   i as XTS tweak: every extent of the output is the plaintext of the
   sector at its own index, never the product of another tweak. *)
C13_SectorTweaks ==
    /\ pc = "Streaming" => current_sector = f_in.pos
    /\ current_sector \in 0..f_in.pos
    /\ \A i \in 1..Len(out.data) : out.data[i].sector = i - 1

\* C13: three sectors were decrypted, the third one with tweak 2
C13_Witness ==
    /\ pc = "Done" /\ Len(out.data) = 3
    /\ out.data[3].sector = 2
    /\ XTS_decrypt(xts_key, ToBytes16Little(2), ReadSector(file, 2)).sector = 2
    /\ XTS_decrypt(xts_key, ToBytes16Little(1), ReadSector(file, 2)).sector = -1

(* C14: when the payload ends before file_length plaintext bytes were
   written, a sector loop does not finish normally: it never returns with
   fewer bytes written than the plaintext length it was given. *)
C14_TruncatedPayloadFails ==
    (pc = "Done" /\ result.kind = "return") => BytesWritten >= file_length

\* the error both AESDataFile constructors raise first, as type t
InvalidHeaderLength(t) == Failed(Raise(t, "Invalid header length"))

(* C15: AESDataFile of src/res/aes_date_file.py and of
   src/src/aes_decryptor.py, given a header whose length is not 144, fail
   with the invalid-header-length error whatever the bytes are: no field
   is parsed, the magic is not compared, the checksum is not computed.  A
   file whose header read is short never reaches key derivation. *)
C15_ShortHeaderRejected ==
    Len(file.header) # HEADER_LENGTH
    => /\ ResAESDataFile(file.header) = InvalidHeaderLength("AESDataFileError")
       /\ ExpertAESDataFile(file.header) = InvalidHeaderLength("ValueError")
       /\ (variant = "res" /\ pc = "Error" /\ stages = << "HeaderRead" >>)
             => /\ data_file = InvalidHeaderLength("AESDataFileError")
                /\ result.error.msg = "Invalid header length"
                /\ result.error.origin = "AESDataFileError"
       /\ data_file.f = NoFields
       /\ keys = << >>
       /\ \A i \in 1..Len(stages) : stages[i] \in {"HeaderRead"}

\* C15: the constructor of src/res/aes_date_file.py was given 100 bytes that
\* do not start with valid UTF-8
C15_Witness ==
    /\ variant = "res" /\ pc = "Error"
    /\ Len(header) = 100 /\ header[1] = 255
    /\ data_file.raised.msg = "Invalid header length"

(* C16: AESDataFile of src/res/aes_date_file.py and of
   src/src/aes_decryptor.py, given 144 bytes whose first four are not
   "AESD" (valid UTF-8 or not, checksum right or wrong), fail with the
   error 'Invalid file type' and with no other error. *)
C16_InvalidFileType ==
    (Len(file.header) = HEADER_LENGTH /\ Slice(file.header, 0, 4) # EXPECTED_FILE_TYPE)
    => /\ ResAESDataFile(file.header).raised = Raise("AESDataFileError", "Invalid file type")
       /\ ExpertAESDataFile(file.header).raised = Raise("ValueError", "Invalid file type")
       /\ (variant = "res" /\ Parsed) => data_file.raised.msg = "Invalid file type"

(* C17: key derivation is a function of the password, the two salts and
   the iteration count alone: a second call with the same four values
   returns the same 32-byte key, header key and IV, whatever else the
   state of the decryptor that makes the call is.  Here the second call is
   made by a decryptor of src/aes_decryptor.py configured under any
   environment that gives the same iteration count, and by CryptoHelper. *)
C17_DerivationStateless ==
    (variant = "res" /\ pc = "KeysDerivedStage1")
    => /\ Len(derive_key_from_password(password, data_file.f.global_salt,
                                       config.KDF_ITERATIONS, 32)) = 32
       /\ \A env \in Environments :
             Config(env).KDF_ITERATIONS = config.KDF_ITERATIONS
             => ResDeriveKeysOf(Config(env), password, data_file.f) = keys
       /\ LET file_key_hash ==
                  generate_file_hash(data_file.f.file_salt
                      \o derive_key_from_password(password, data_file.f.global_salt,
                                                  config.KDF_ITERATIONS, 32))
          IN  keys = << Slice(file_key_hash, 0, 32), Slice(file_key_hash, 32, 44) >>

\* the reads that return bytes: the whole sectors and the tail
PayloadSectors(f) == f.nsectors + (IF f.tail > 0 THEN 1 ELSE 0)

(* C18: every sector loop ends on every finite payload.  It makes at most
   one read per sector of the payload and one more, the empty one; when
   nothing follows the 144-byte header it writes no byte and returns
   normally. *)
C18_LoopTerminates ==
    /\ <>(pc = "Done")
    /\ [](f_in.pos <= PayloadSectors(file))
    /\ []((pc = "Done" /\ PayloadSize(file) = 0)
             => (BytesWritten = 0 /\ f_in.pos = 0 /\ result.kind = "return"))

\* C18: the loop of src/aesdecryptor.py ended on a payload of no bytes
C18_Witness ==
    /\ variant = "legacy" /\ pc = "Done"
    /\ PayloadSize(file) = 0 /\ padding_length = 0
    /\ BytesWritten = 0 /\ result = Returned("None")

(* C19: decrypt_file of src/aes_decryptor.py, called on an existing .aesd
   file with a well-formed header and the password it was written with,
   eventually reaches the content decryption and returns True, with the
   size of the file minus 144 minus padding_length as file length there.
   A call that returns True has not raised: such a call never ends in an
   exception, and once it has ended it has returned True. *)
C19_ResReturnsTrue ==
    (variant = "res" /\ WellFormedCall)
    => /\ pc # "Error"
       /\ result.kind # "raise"
       /\ pc = "Done"
             => /\ result = Returned("True")
                /\ file_length = FileSize(file) - HEADER_LENGTH - padding_length

\* decrypt_file of src/aesdecryptor.py has left through the sys.exit of
\* validate_file_extension
ExtensionRejected ==
    pc = "Error" /\ stages = << >> /\ result = SystemExit("extension", "SystemExit")

(* C20: validate_file_extension of src/aesdecryptor.py accepts every path
   whose final extension is .aesd or .aesf and returns the path without
   it; on any other final extension it exits with SystemExit and returns
   nothing. *)
C20_ExtensionValidation ==
    variant = "legacy"
    => /\ file.suffix \in {".aesd", ".aesf"}
          => /\ validate_file_extension(file.suffix)
                  = [exits |-> FALSE, returns |-> "encrypted_filename"]
             /\ ~ExtensionRejected
       /\ file.suffix \notin {".aesd", ".aesf"}
          => /\ validate_file_extension(file.suffix) = [exits |-> TRUE, returns |-> ""]
             /\ pc # "Start" => ExtensionRejected

(* C21: decrypt_file of src/aes_decryptor.py, called on a path that does
   not exist or whose suffix in lower case is not .aesd, returns False: it
   raises nothing, reads no header, derives no key and leaves the output
   file as it was.  The default output path is the input path without its
   last suffix. *)
C21_InvalidInputReturnsFalse ==
    (variant = "res" /\ (~file.exists \/ Lower(file.suffix) # ".aesd"))
    => /\ pc \in {"Start", "Error"}
       /\ pc = "Error" => result = Returned("False")
       /\ header = << >> /\ stages = << >> /\ keys = << >>
       /\ data_file = NoDataFile
       /\ out \in {NoOutput, OldOutput}
       /\ ~f_in.open
       /\ ResGetOutputPath(InputPath(file)) = << "test_file", ".png" >>

\* C21: the call on a .txt file returned False with the old output in place
C21_Witness ==
    /\ variant = "res" /\ pc = "Error"
    /\ file.exists /\ file.suffix = ".txt"
    /\ result = Returned("False") /\ out = OldOutput

(* main() of src/aes_decryptor.py on the outcome r of decrypt_file: the
   value returned, given to sys.exit. *)
ResMain(r) ==
    IF r.kind = "return" THEN (IF r.value = "True" THEN 0 ELSE 1)
    ELSE IF r.error.type = "KeyboardInterrupt" THEN 130
    ELSE 1

(* main() of src/src/aes_decryptor.py on the outcome r of decrypt_file.
   After a return the summary is printed through self.color_formatter;
   main is a function, self is no name in it, and the NameError is caught
   by except Exception, which returns 1. *)
ExpertMain(r) ==
    IF r.kind = "return"
    THEN LET summary == Raise("NameError", "name 'self' is not defined")
         IN  IF summary = NoError THEN 0 ELSE 1
    ELSE 1

\* the exit status of the command line run that made this call of decrypt_file
ExitStatus == IF variant = "res" THEN ResMain(result) ELSE ExpertMain(result)

(* C22: main() of src/aes_decryptor.py and of src/src/aes_decryptor.py
   gives exit status 0 exactly when decrypt_file completed successfully:
   every failure gives a status other than 0, and a successful decryption
   gives 0. *)
C22_ExitStatus ==
    (variant \in {"res", "expert"} /\ pc \in {"Done", "Error"})
    => (ExitStatus = 0 <=> (pc = "Done" /\ result.kind = "return"))

\* Config objects as the tests alter them after construction
AlteredConfigs ==
    { [Config(DefaultEnvironment) EXCEPT !.KDF_ITERATIONS = k, !.HEADER_LENGTH = h,
                                         !.SECTOR_LENGTH = l] :
        k \in {0, 500, 999, 1000, 50000}, h \in {0, 1, 144}, l \in {0, 1, 512} }

(* C23: a fresh Config has HEADER_LENGTH 144, SECTOR_LENGTH 512 and
   KDF_ITERATIONS 50000, or the value of AES_KDF_ITERATIONS when that is
   set; validate() is True exactly when KDF_ITERATIONS >= 1000,
   HEADER_LENGTH >= 1 and SECTOR_LENGTH >= 1; the key derivation of
   decrypt_file in src/aes_decryptor.py runs PBKDF2 with the KDF_ITERATIONS
   of its Config. *)
C23_ConfigValues ==
    variant = "res"
    => /\ config.HEADER_LENGTH = 144 /\ config.SECTOR_LENGTH = 512
       /\ \E env \in Environments :
             /\ config = Config(env)
             /\ config.KDF_ITERATIONS = IF env.AES_KDF_ITERATIONS = << >> THEN 50000
                                        ELSE env.AES_KDF_ITERATIONS[1]
       /\ ConfigValidate(config) <=> config.KDF_ITERATIONS >= 1000
       /\ \A cfg \in AlteredConfigs :
             ConfigValidate(cfg) <=> /\ cfg.KDF_ITERATIONS >= 1000
                                     /\ cfg.HEADER_LENGTH >= 1
                                     /\ cfg.SECTOR_LENGTH >= 1
       /\ pc = "KeysDerivedStage1"
             => LET pwd_key == pbkdf2_hmac_sha512(Encode(password, config.PWD_ENCODING).bytes,
                                                  data_file.f.global_salt,
                                                  config.KDF_ITERATIONS, 32)
                    digest == sha512(data_file.f.file_salt \o pwd_key)
                IN  keys = << Slice(digest, 0, 32), Slice(digest, 32, 44) >>

\* C23: keys were derived under AES_KDF_ITERATIONS=500, which validate() rejects
C23_Witness ==
    /\ variant = "res" /\ pc = "KeysDerivedStage1"
    /\ config.KDF_ITERATIONS = 500 /\ ~ConfigValidate(config)
    /\ keys # ResDeriveKeysOf(Config(DefaultEnvironment), password, data_file.f)

\* the place, counted from 1, of the password flag check_arguments looks at:
\* the first -p, or the first --pwd when there is no -p; 0 when there is neither
PwdFlagAt(a) ==
    LET first(x) == CHOOSE i \in 1..Len(a) : a[i] = x /\ \A j \in 1..(i - 1) : a[j] # x
    IN  IF \E i \in 1..Len(a) : a[i] = "-p" THEN first("-p")
        ELSE IF \E i \in 1..Len(a) : a[i] = "--pwd" THEN first("--pwd")
        ELSE 0

(* C24: check_arguments returns None whenever -h or --help is anywhere in
   the list.  Otherwise it returns a dict with no keys but 'file' and
   'pwd': 'file' is argv[1], present exactly when argv[1] exists and does
   not start with '-'; 'pwd' is the element after the password flag,
   present exactly when the flag is at an index above 0 and an element
   follows it. *)
C24_CheckArguments ==
    (call.fn = "check_arguments" /\ ret # << >>)
    => LET a == call.args
           r == ret[1]
           help == \E i \in 1..Len(a) : a[i] \in {"-h", "--help"}
           flag == PwdFlagAt(a)
       IN  IF help THEN r.none
           ELSE /\ ~r.none
                /\ DOMAIN r.dict \subseteq {"file", "pwd"}
                /\ "file" \in DOMAIN r.dict <=> (Len(a) >= 2 /\ ~StartsWithDash(a[2]))
                /\ "file" \in DOMAIN r.dict => r.dict["file"] = a[2]
                /\ "pwd" \in DOMAIN r.dict <=> (flag > 1 /\ flag < Len(a))
                /\ "pwd" \in DOMAIN r.dict => r.dict["pwd"] = a[flag + 1]

\* C24: -p at index 0 was passed over although --pwd with a value follows
C24_Witness ==
    /\ call = [fn |-> "check_arguments", args |-> << "-p", "file.aesd", "--pwd", "password" >>]
    /\ ret = << Dict("file" :> "file.aesd") >>

(* multiplication by x in GF(2^128) as XTS defines it: the block, read as
   a little-endian 128-bit number, shifted left by one bit, and 0x87
   XORed into byte 0 of the shifted block when bit 7 of byte 15 fell out *)
XtsDouble(b) ==
    LET shifted == [i \in 1..16 |->
                       ((2 * b[i]) + (IF i = 1 THEN 0 ELSE b[i - 1] \div 128)) % 256]
    IN  IF b[16] >= 128 THEN [shifted EXCEPT ![1] = Xor(shifted[1], 135)] ELSE shifted

(* C25: for every 16-byte block b, multiplyX(b) of src/read_file.py is the
   XTS multiplication of b by x in GF(2^128). *)
C25_MultiplyX ==
    (call.fn = "multiplyX" /\ ret # << >>) => ret[1] = XtsDouble(call.args)

\* clear() has been called on the object, by name or through __exit__,
\* and has returned
Cleared ==
    /\ secure.kind = "SecureMemory" /\ secure.phase = "idle"
    /\ \E i \in 1..Len(call.args) : call.args[i] \in {"clear", "__exit__"}

AllZero(d) == \A i \in 1..Len(d) : d[i] = 0

(* C26: SecureMemory and secure_zero_memory.  After clear() the buffer is
   empty and get() returns the empty byte string; the buffer is emptied
   only when every byte of it is 0; a second clear() changes nothing;
   a with block that was left, normally or by an exception, has cleared
   the buffer, and the exception goes on; secure_zero_memory leaves its
   bytearray with the same length and every byte 0. *)
C26_SecureMemoryLifecycle ==
    /\ [](Cleared => secure.data = << >>)
    /\ []((Cleared /\ Len(call.args) >= 2 /\ call.args[Len(call.args)] = "get")
             => ret = << << >> >>)
    /\ [][(secure.data # << >> /\ secure'.data = << >>) => AllZero(secure.data)]_vars
    /\ [][(Cleared /\ call' = [call EXCEPT !.args = Append(@, "clear")])
             => secure' = secure]_vars
    /\ [](secure.block = "left" => secure.data = << >>)
    /\ [][secure.block = "exiting" => secure'.exc = secure.exc]_vars
    /\ []((secure.kind = "bytearray" /\ secure.phase = "idle" /\ call.args # << >>)
             => (Len(secure.data) = secure.original_length /\ AllZero(secure.data)))

\* C26: a with block around three secret bytes was left by an exception
C26_Witness ==
    /\ secure.kind = "SecureMemory" /\ secure.block = "left" /\ secure.exc
    /\ secure.original_length = 3 /\ secure.data = << >>
    /\ call.args = << "get", "__exit__" >> /\ ret = << << 65, 255, 65 >> >>

\* decrypt_file of src/src/aes_decryptor.py failed after _validate_input_file
ExpertFailedInside == variant = "expert" /\ pc = "Error" /\ stages # << >>

(* C27: when a step of decrypt_file of src/src/aes_decryptor.py fails after
   the input was validated, the exception reaches the caller as it was
   raised and no file exists at output_path at that moment. *)
C27_NoOutputAfterFailure ==
    ExpertFailedInside
    => /\ result.kind = "raise"
       /\ result.error = data_file.raised \/ data_file.raised = NoError
       /\ ~out.exists

(* C28: AESDataFile of src/res/aes_date_file.py and AESDataFile of
   src/src/aes_decryptor.py accept the same 144-byte headers: on every
   header, whatever its CRC-32 is in the unsigned 32-bit range, the
   checksum check of the one passes exactly when that of the other does. *)
C28_SameHeadersAccepted ==
    (pc = "Start" /\ Len(file.header) = HEADER_LENGTH)
    => (ResAESDataFile(file.header).raised = NoError
           <=> ExpertAESDataFile(file.header).raised = NoError)

(* C29: when decrypt_file of src/src/aes_decryptor.py or of
   src/aesdecryptor.py fails before the payload stage, a file that was at
   output_path before the call is still there, with the contents it had:
   the failing step leaves the output file as it was. *)
C29_OldOutputKept ==
    [][(/\ variant \in {"legacy", "expert"}
        /\ out.exists
        /\ pc' = "Error"
        /\ \A i \in 1..Len(stages') : stages'[i] # "Streaming")
       => out' = out]_vars


(* ------------------------------------------------------------------ *)
(* C30: every input handle that load_encrypted_file of                 *)
(* src/aesdecryptor.py opened is closed once decrypt_file is left, on  *)
(* every exit path: success, short header, header parse failure,       *)
(* wrong password, and an error while streaming.                       *)
(* ------------------------------------------------------------------ *)
C30_InputHandleClosed ==
    (variant = "legacy" /\ pc \in {"Done", "Error"}) => ~f_in.open

====
